---- MODULE Spec2Model ----
(***************************************************************************)
(* Model of the media-job pipeline of green-sub-pro:                       *)
(*   core/job_queue.py      JobQueue (submitting thread + worker thread)   *)
(*   core/ffmpeg_runner.py  FFmpegRunner.run_command / cancel              *)
(*   core/subtitle_manager.py  create_safe_copy / cleanup (tracked files)  *)
(* Every statement of the worker that reads or writes state shared with    *)
(* the submitting thread is one step, so that every interleaving the       *)
(* interpreter can produce between the two threads is a behaviour.         *)
(***************************************************************************)
EXTENDS Integers, Sequences, FiniteSets, TLC

\* ------------------------------------------------------------------ bounds
MaxJobs == 2      \* number of add_job calls (and so of job ids and threads)
MaxLines == 1     \* lines an external process writes to stdout

JobIds == 1..MaxJobs
ThreadIds == 1..MaxJobs
None == 0

\* ------------------------------------------------------- inputs of add_job
\* The fields of a job that decide how it is processed.  add_job stores them
\* in the job and nothing reads them before the worker does (job_queue.py
\* 66-76), so the model draws them where the worker first reads them.
\* subtitle: "file" an existing path, "none" None or the empty string
\*           ("missing", a path that does not exist, takes the same branch
\*           of create_safe_copy as "none").
\* durPos:   duration > 0.     buildOk: build_burn_command does not raise
\*           (resolution parses as WxH, quality/codec accepted).
JobInputs ==
  { [subtitle |-> "file",    durPos |-> TRUE,  buildOk |-> TRUE],
    [subtitle |-> "file",    durPos |-> FALSE, buildOk |-> TRUE],
    [subtitle |-> "file",    durPos |-> TRUE,  buildOk |-> FALSE],
    [subtitle |-> "none",    durPos |-> TRUE,  buildOk |-> TRUE] }

NoInput == [subtitle |-> "unset", durPos |-> FALSE, buildOk |-> FALSE]

Terminal == {"completed", "failed", "cancelled"}

\* RenderResult kinds returned by run_command
ResOk        == "success"        \* RenderResult(True, cmd[-1], elapsed)
ResCancelled == "cancelled"      \* "Job cancelled by user."
ResFFmpeg    == "ffmpeg_error"   \* "FFmpeg Error (code N):..."
ResFFmpegText == "ffmpeg_error_text"  \* ... with "Cancelled.mp4: No such file" on stderr
ResNotFound  == "not_found"      \* "FFmpeg binary not found. Is it installed?"
ResException == "runner_exc"     \* "Runner exception: ..."
ResNone      == "none"
FailedResults ==
  {ResCancelled, ResFFmpeg, ResFFmpegText, ResNotFound, ResException}

\* Callback values: a percentage is modelled by the index of the stdout line
\* it was computed from; the two terminal sentinels keep their values.
CbDone == 101
CbError == 0 - 1

VARIABLES
  queue,          \* JobQueue._queue: sequence of job ids (FIFO list)
  jobState,       \* job["state"] per job id; "unsubmitted" before add_job
  current_job,    \* JobQueue._current_job (None or a job id)
  worker_thread,  \* JobQueue._worker_thread (None or a thread id)
  thr,            \* per thread: pc, local job, the fields inp it read from
                  \*   the job, RenderResult res, pending exception exc,
                  \*   and cb, the values it passed to the progress callback
                  \*   for the job it is processing, in order
  process,        \* FFmpegRunner._process (None or the process of a job)
  cancelled,      \* FFmpegRunner._cancelled
  proc,           \* per job: the external process it spawned
  temp_files,     \* SubtitleManager.temp_files (tracked paths, by job id)
  fs,             \* temporary subtitle files that exist on disk (by job id)
  client,         \* the submitting thread: pc of the call in progress
  clearedPending, \* history: jobs in state pending when _queue.clear() ran
  cancelReq,      \* history: the job being processed whose running process
                  \*   was sent the terminate of a cancel request, with the
                  \*   cancel flag set, while run_command read its output
  cancelAim,      \* history, per job being processed: "aimed" once the
                  \*   test of cancel_current_job found it running, "early"
                  \*   once the runner's cancel flag was set for it after
                  \*   that and before its process was spawned; else "none"
  call            \* the one call under study in the specifications of a
                  \*   single operation called from a single thread: its
                  \*   arguments, its position and what it has produced;
                  \*   NoCall in the job queue

vars == << queue, jobState, current_job, worker_thread, thr, process,
           cancelled, proc, temp_files, fs, client, clearedPending,
           cancelReq, cancelAim, call >>

queueVars  == << queue, jobState, current_job, worker_thread >>
runnerVars == << process, cancelled >>
subVars    == << temp_files, fs >>
histVars   == << clearedPending, cancelReq, cancelAim >>

\* ------------------------------------------------------------------ helpers
Range(s) == { s[i] : i \in 1..Len(s) }

NoThread == [pc |-> "unstarted", job |-> None, inp |-> NoInput,
             res |-> ResNone, exc |-> FALSE, cb |-> << >>]
NoProc   == [st |-> "none", out |-> << >>, read |-> 0, rc |-> 0]

\* threading.Thread.is_alive(): started and its target has not returned/raised
IsAlive(t) == thr[t].pc \notin {"unstarted", "dead"}

AliveThreads == { t \in ThreadIds : IsAlive(t) }

Submitted == { j \in JobIds : jobState[j] # "unsubmitted" }

\* job_queue.py:36 -- a fresh uuid: the next unused job id
NextJobId == Cardinality(Submitted) + 1

NoCall == [op |-> "none"]

\* the job queue, runner and subtitle manager after construction
Constructed ==
  /\ queue = << >>
  /\ jobState = [j \in JobIds |-> "unsubmitted"]
  /\ current_job = None
  /\ worker_thread = None
  /\ thr = [t \in ThreadIds |-> NoThread]
  /\ process = None
  /\ cancelled = FALSE
  /\ proc = [j \in JobIds |-> NoProc]
  /\ temp_files = << >>
  /\ fs = {}
  /\ client = "idle"
  /\ clearedPending = {}
  /\ cancelReq = {}
  /\ cancelAim = [j \in JobIds |-> "none"]

Init == Constructed /\ call = NoCall

\* ===================================================== external process
\* The process a job's command spawns.  st: "none" not spawned, "run"
\* running, "term" running with a SIGTERM pending, "dead" exited ("nobin",
\* "oserror": Popen raised and no process exists).  out is
\* what it has written to stdout so far: line i is either i (an
\* out_time_ms line whose percentage is modelled by i) or 0 (any line that
\* yields no callback: another key, a malformed or a negative value).
\* read counts the lines the runner has consumed; rc is the exit code.
\* Once run_command has returned nothing refers to the Popen object any
\* more: its pipes and exit code are gone; the record is "orphan" while
\* the process still runs and back to "none" when no process is left.

P_Write(j) ==
  /\ proc[j].st \in {"run", "term"}
  /\ Len(proc[j].out) < MaxLines
  /\ \E line \in {0, Len(proc[j].out) + 1} :
       proc' = [proc EXCEPT ![j].out = Append(@, line)]
  /\ UNCHANGED << queueVars, thr, runnerVars, subVars, client, histVars, call >>

P_Exit(j) ==
  /\ proc[j].st = "run"
  /\ \E code \in {0, 1} :
       proc' = [proc EXCEPT ![j].st = "dead", ![j].rc = code]
  /\ UNCHANGED << queueVars, thr, runnerVars, subVars, client, histVars, call >>

P_Die(j) ==
  /\ proc[j].st = "term"
  /\ proc' = [proc EXCEPT ![j].st = "dead", ![j].rc = 0 - 15]
  /\ UNCHANGED << queueVars, thr, runnerVars, subVars, client, histVars, call >>

P_OrphanExit(j) ==
  /\ proc[j].st = "orphan"
  /\ proc' = [proc EXCEPT ![j] = NoProc]
  /\ UNCHANGED << queueVars, thr, runnerVars, subVars, client, histVars, call >>

\* The Popen object of job j after run_command dropped its reference
Released(p) ==
  IF p.st \in {"run", "term"} THEN [NoProc EXCEPT !.st = "orphan"] ELSE NoProc

\* Popen.terminate(): signals a running process, no effect on an exited one
Terminate(p) ==
  IF p \in JobIds /\ proc[p].st = "run"
    THEN [proc EXCEPT ![p].st = "term"]
    ELSE proc

\* ===================================================== submitting thread
\* add_job starting a worker whether or not one is alive
NeedsWorkerAlways == TRUE

\* job_queue.py:50
NeedsWorker == worker_thread = None \/ ~IsAlive(worker_thread)

\* job_queue.py:36-49  append a new pending job at the tail
AddJobAppend ==
  /\ client = "idle"
  /\ NextJobId <= MaxJobs
  /\ queue' = Append(queue, NextJobId)
  /\ jobState' = [jobState EXCEPT ![NextJobId] = "pending"]
  /\ client' = "aj_check"
  /\ UNCHANGED << current_job, worker_thread, thr, runnerVars, proc, subVars,
                  histVars, call >>

\* job_queue.py:50-58  start a worker unless one is alive, then return.
\* The new Thread object takes the lowest slot that holds no live thread.
AddJobStart ==
  /\ client = "aj_check"
  /\ IF NeedsWorker
       THEN LET t == CHOOSE u \in ThreadIds :
                       /\ ~IsAlive(u)
                       /\ \A v \in ThreadIds : ~IsAlive(v) => u <= v
            IN /\ worker_thread' = t
               /\ thr' = [thr EXCEPT ![t].pc = "loop"]
       ELSE UNCHANGED << worker_thread, thr >>
  /\ client' = "idle"
  /\ UNCHANGED << queue, jobState, current_job, runnerVars, proc,
                  subVars, histVars, call >>

\* a clear_queue that marks the dropped jobs cancelled
ClearQueueMarksCancelled ==
  /\ client = "idle"
  /\ queue' = << >>
  /\ jobState' = [j \in JobIds |->
                   IF jobState[j] = "pending" THEN "cancelled" ELSE jobState[j]]
  /\ clearedPending' =
       clearedPending \cup { j \in JobIds : jobState[j] = "pending" }
  /\ client' = "cc_read1"
  /\ UNCHANGED << current_job, worker_thread, thr,
                  runnerVars, proc, subVars, cancelReq, cancelAim, call >>

\* job_queue.py:96  self._queue.clear(), then cancel_current_job()
ClearQueue ==
  /\ client = "idle"
  /\ queue' = << >>
  /\ clearedPending' =
       clearedPending \cup { j \in JobIds : jobState[j] = "pending" }
  /\ client' = "cc_read1"
  /\ UNCHANGED << jobState, current_job, worker_thread, thr,
                  runnerVars, proc, subVars, cancelReq, cancelAim, call >>

\* job_queue.py:92  first load of self._current_job (the left operand of and)
CancelRead1 ==
  /\ client \in {"idle", "cc_read1"}
  /\ client' = IF current_job = None THEN "idle" ELSE "cc_read2"
  /\ UNCHANGED << queueVars, thr, runnerVars, proc, subVars, histVars, call >>

\* the history of the requests after the test of line 92 has loaded job j
AimedAt(j) ==
  IF j # None /\ jobState[j] = "running" /\ cancelAim[j] = "none"
    THEN [cancelAim EXCEPT ![j] = "aimed"]
    ELSE cancelAim

\* cancel_current_job that also drops the queued jobs
CancelRead2Clears ==
  /\ client = "cc_read2"
  /\ client' = IF current_job = None THEN "raised"
               ELSE IF jobState[current_job] = "running" THEN "cn_set"
               ELSE "idle"
  /\ queue' = << >>
  /\ cancelAim' = AimedAt(current_job)
  /\ UNCHANGED << jobState, current_job, worker_thread, thr, runnerVars, proc,
                  subVars, clearedPending, cancelReq, call >>

\* job_queue.py:92  second load of self._current_job and its ["state"]:
\* None here is a TypeError raised in the submitting thread
CancelRead2 ==
  /\ client = "cc_read2"
  /\ client' = IF current_job = None THEN "raised"
               ELSE IF jobState[current_job] = "running" THEN "cn_set"
               ELSE "idle"
  /\ cancelAim' = AimedAt(current_job)
  /\ UNCHANGED << queueVars, thr, runnerVars, proc, subVars, clearedPending,
                  cancelReq, call >>

\* the exception leaves cancel_current_job / clear_queue
ClientRaised ==
  /\ client = "raised"
  /\ client' = "idle"
  /\ UNCHANGED << queueVars, thr, runnerVars, proc, subVars, histVars, call >>

\* The worker holds job j, marked running, and has not reached Popen yet
BeforeSpawn(j) ==
  \E t \in ThreadIds :
    thr[t].job = j /\ thr[t].pc \in {"copy", "rc_reset", "rc_spawn"}

\* ffmpeg_runner.py:136
RunnerCancelSet ==
  /\ client = "cn_set"
  /\ cancelled' = TRUE
  /\ client' = "cn_check"
  /\ cancelAim' =
       IF current_job # None /\ cancelAim[current_job] = "aimed"
          /\ BeforeSpawn(current_job)
         THEN [cancelAim EXCEPT ![current_job] = "early"]
         ELSE cancelAim
  /\ UNCHANGED << queueVars, thr, process, proc, subVars, clearedPending,
                  cancelReq, call >>

\* ffmpeg_runner.py:137
RunnerCancelCheck ==
  /\ client = "cn_check"
  /\ client' = IF process = None THEN "idle" ELSE "cn_term"
  /\ UNCHANGED << queueVars, thr, runnerVars, proc, subVars, histVars, call >>

\* The request reaches a job's process while run_command reads its output
ReadingOutputOf(j) ==
  /\ j \in JobIds
  /\ proc[j].st = "run"
  /\ \E t \in ThreadIds : thr[t].job = j /\ thr[t].pc = "rc_read"

\* ffmpeg_runner.py:138-141  self._process.terminate(); a None loaded here
\* raises AttributeError, which the try/except swallows
RunnerCancelTerminate ==
  /\ client = "cn_term"
  /\ proc' = Terminate(process)
  /\ cancelReq' = IF cancelled /\ ReadingOutputOf(process)
                    THEN cancelReq \cup {process} ELSE cancelReq
  /\ client' = "idle"
  /\ UNCHANGED << queueVars, thr, runnerVars, subVars, clearedPending,
                  cancelAim, call >>

\* ========================================================= worker thread
At(t, l) == thr[t].pc = l
Goto(t, l) == [thr EXCEPT ![t].pc = l]

\* pop() instead of pop(0): the worker takes the newest job
PopLast(q) == Len(q)

\* job_queue.py:62  pop(0): the index the worker pops (1 is the list's head)
PopIndex(q) == 1

RemoveAt(q, i) == [k \in 1..(Len(q) - 1) |-> IF k < i THEN q[k] ELSE q[k + 1]]

\* create_safe_copy without the check of its argument
SafeCopyNeverRaises(inp) == FALSE

\* subtitle_manager.py:32  not original_path or not os.path.exists(...)
SafeCopyRaises(inp) == inp.subtitle # "file"

\* ffmpeg_runner.py:97  returncode != 0 and not self._cancelled
ExitFails(code, canc) == code # 0 /\ ~canc

\* RenderResult.error_message as the sequence of its words: the fixed text
\* of each failure (ffmpeg_runner.py:79,99,106,108; "" on success, line 13).
\* The exit code and the exception text that follow the fixed words of
\* lines 99 and 108 are not part of this sequence; the stderr tail of line
\* 98 is, when the process wrote one that names a file "Cancelled.mp4".
ErrorMessage(res) ==
  CASE res = ResCancelled -> << "Job", "cancelled", "by", "user" >>
    [] res = ResFFmpeg    -> << "FFmpeg", "Error", "code" >>
    [] res = ResFFmpegText -> << "FFmpeg", "Error", "code", "Cancelled", "mp4",
                                 "No", "such", "file" >>
    [] res = ResNotFound  -> << "FFmpeg", "binary", "not", "found", "Is", "it",
                                "installed" >>
    [] res = ResException -> << "Runner", "exception" >>
    [] OTHER              -> << >>

\* str.lower() on the words that occur in these messages
LowerWord(w) ==
  CASE w = "Job" -> "job"       [] w = "FFmpeg" -> "ffmpeg"
    [] w = "Error" -> "error"   [] w = "Is" -> "is"
    [] w = "Runner" -> "runner" [] w = "Cancelled" -> "cancelled"
    [] w = "No" -> "no"         [] OTHER -> w
Lower(msg) == [i \in 1..Len(msg) |-> LowerWord(msg[i])]

\* the Python test  phrase in msg  on word sequences
Contains(msg, phrase) ==
  \E i \in 1..(Len(msg) - Len(phrase) + 1) :
    SubSeq(msg, i, i + Len(phrase) - 1) = phrase

\* job_queue.py:82  "cancelled" in res.error_message.lower()
MessageHasCancelled(res) == Contains(Lower(ErrorMessage(res)), << "cancelled" >>)

\* a worker that marks every failure "failed", cancellation included
StateForNoCancel(res) == IF res = ResOk THEN "completed" ELSE "failed"

\* job_queue.py:78-82  the state the worker writes for a RenderResult
StateFor(res) ==
  IF res = ResOk THEN "completed"
  ELSE IF MessageHasCancelled(res) THEN "cancelled" ELSE "failed"

\* job_queue.py:80,83  the terminal signal for a RenderResult
SignalFor(res) == IF res = ResOk THEN CbDone ELSE CbError

\* cleanup() that forgets the tracked paths without deleting them
CleanupLeavesFiles(files, tracked) == files

\* subtitle_manager.py:68-74  the files on disk after cleanup()
CleanupFs(files, tracked) == files \ Range(tracked)

\* job_queue.py:61  while self._queue
W_LoopTest(t) ==
  /\ At(t, "loop")
  /\ thr' = Goto(t, IF queue # << >> THEN "pop" ELSE "exit")
  /\ UNCHANGED << queueVars, runnerVars, proc, subVars, client, histVars, call >>

\* the loop was left: _process_queue returns and the thread ends
W_Exit(t) ==
  /\ At(t, "exit")
  /\ thr' = Goto(t, "dead")
  /\ UNCHANGED << queueVars, runnerVars, proc, subVars, client, histVars, call >>

\* job_queue.py:62  job = self._queue.pop(0); on a list emptied since the
\* loop test this is an IndexError outside the try, which ends the thread
W_Pop(t) ==
  /\ At(t, "pop")
  /\ IF queue = << >>
       THEN /\ thr' = Goto(t, "dead")
            /\ UNCHANGED queue
       ELSE /\ thr' = [thr EXCEPT ![t].pc = "setcur",
                                   ![t].job = queue[PopIndex(queue)]]
            /\ queue' = RemoveAt(queue, PopIndex(queue))
  /\ UNCHANGED << jobState, current_job, worker_thread, runnerVars,
                  proc, subVars, client, histVars, call >>

\* job_queue.py:63
W_SetCurrent(t) ==
  /\ At(t, "setcur")
  /\ current_job' = thr[t].job
  /\ thr' = Goto(t, "setrun")
  /\ UNCHANGED << queue, jobState, worker_thread, runnerVars, proc,
                  subVars, client, histVars, call >>

\* job_queue.py:64
W_SetRunning(t) ==
  /\ At(t, "setrun")
  /\ jobState' = [jobState EXCEPT ![thr[t].job] = "running"]
  /\ thr' = Goto(t, "copy")
  /\ UNCHANGED << queue, current_job, worker_thread, runnerVars,
                  proc, subVars, client, histVars, call >>

\* job_queue.py:66-74  create_safe_copy (subtitle_manager.py:25-51) raises
\* FileNotFoundError, or writes one new temp file and tracks it; then
\* build_burn_command returns the command or raises
W_Prepare(t) ==
  /\ At(t, "copy")
  /\ \E inp \in JobInputs :
       IF SafeCopyRaises(inp)
         THEN /\ thr' = [thr EXCEPT ![t].inp = inp, ![t].pc = "except"]
              /\ UNCHANGED subVars
         ELSE /\ fs' = fs \cup {thr[t].job}
              /\ temp_files' = Append(temp_files, thr[t].job)
              /\ thr' = [thr EXCEPT ![t].inp = inp,
                                     ![t].pc = IF inp.buildOk THEN "rc_reset"
                                               ELSE "except"]
  /\ UNCHANGED << queueVars, runnerVars, proc, client, histVars, call >>

\* ---------------------------------------------- FFmpegRunner.run_command
\* ffmpeg_runner.py:45
R_Reset(t) ==
  /\ At(t, "rc_reset")
  /\ cancelled' = FALSE
  /\ thr' = Goto(t, "rc_spawn")
  /\ UNCHANGED << queueVars, process, proc, subVars, client, histVars, call >>

\* What subprocess.Popen(cmd, ...) does: "started" the process runs, "nobin"
\* cmd[0] names no existing binary (FileNotFoundError), "oserror" any other
\* exception (PermissionError, an argument list Popen rejects, ...)
SpawnOutcomes == {"started", "nobin", "oserror"}

\* a runner without the except FileNotFoundError clause
SpawnFailureGeneric(how) == ResException

\* ffmpeg_runner.py:105-108  the result for an exception raised by Popen
SpawnFailure(how) == IF how = "nobin" THEN ResNotFound ELSE ResException

\* a runner without the except Exception clause: the exception leaves
\* run_command and reaches the caller's handler
RunnerUncaught(rec) == [rec EXCEPT !.pc = "except"]

\* ffmpeg_runner.py:107-108  except Exception: the generic failure result
RunnerCaught(rec) == [rec EXCEPT !.pc = "rc_finally", !.res = ResException]

\* ffmpeg_runner.py:59-65,105-108  Popen: the process starts, or Popen
\* raises and the except clauses give the failure result; proc keeps why
\* the spawn failed until run_command returns
R_Spawn(t) ==
  /\ At(t, "rc_spawn")
  /\ \E how \in SpawnOutcomes :
       IF how = "started"
         THEN /\ process' = thr[t].job
              /\ proc' = [proc EXCEPT ![thr[t].job].st = "run"]
              /\ thr' = Goto(t, "rc_read")
         ELSE /\ thr' = [thr EXCEPT ![t].pc = "rc_finally",
                                     ![t].res = SpawnFailure(how)]
              /\ proc' = [proc EXCEPT ![thr[t].job].st = how]
              /\ UNCHANGED process
  /\ UNCHANGED << queueVars, cancelled, subVars, client, histVars, call >>

\* ffmpeg_runner.py:75-91  one iteration of the read loop on the next line
\* of stdout: a set cancel flag terminates, otherwise an out_time_ms line
\* (with a positive duration) is reported to the callback, which returns or
\* raises (caught at line 107)
R_Line(t) ==
  LET j == thr[t].job
      line == proc[j].out[proc[j].read + 1]
  IN
  /\ At(t, "rc_read")
  /\ proc[j].read < Len(proc[j].out)
  /\ IF cancelled
       THEN /\ IF process = None
                 THEN /\ thr' = [thr EXCEPT ![t] = RunnerCaught(@)]
                      /\ proc' = [proc EXCEPT ![j].read = @ + 1]
                 ELSE /\ thr' = Goto(t, "rc_cwait")
                      /\ proc' = [Terminate(process) EXCEPT ![j].read = @ + 1]
       ELSE /\ proc' = [proc EXCEPT ![j].read = @ + 1]
            /\ IF thr[t].inp.durPos /\ line # 0
                 THEN \/ thr' = [thr EXCEPT ![t].cb = Append(@, line)]
                      \/ thr' = [thr EXCEPT ![t] =
                                   RunnerCaught([@ EXCEPT !.cb = Append(@, line)])]
                 ELSE UNCHANGED thr
  /\ UNCHANGED << queueVars, runnerVars, subVars, client, histVars, call >>

\* ffmpeg_runner.py:78-79  self._process.wait() after terminate, then the
\* cancellation result
R_CancelWait(t) ==
  /\ At(t, "rc_cwait")
  /\ IF process = None
       THEN thr' = [thr EXCEPT ![t] = RunnerCaught(@)]
       ELSE /\ proc[process].st = "dead"
            /\ thr' = [thr EXCEPT ![t].pc = "rc_finally", ![t].res = ResCancelled]
  /\ UNCHANGED << queueVars, runnerVars, proc, subVars, client, histVars, call >>

\* ffmpeg_runner.py:75,93-95  end of stdout: close, wait for exit, join
R_Eof(t) ==
  LET j == thr[t].job IN
  /\ At(t, "rc_read")
  /\ proc[j].st = "dead"
  /\ proc[j].read = Len(proc[j].out)
  /\ thr' = Goto(t, "rc_exit")
  /\ UNCHANGED << queueVars, runnerVars, proc, subVars, client, histVars, call >>

\* ffmpeg_runner.py:97-103  failure on a non-zero exit code, with the tail
\* of what the process wrote to stderr, else success
R_ExitCheck(t) ==
  /\ At(t, "rc_exit")
  /\ \E failure \in {ResFFmpeg, ResFFmpegText} :
       thr' = [thr EXCEPT ![t].pc = "rc_finally",
                          ![t].res = IF process = None THEN ResException
                                     ELSE IF ExitFails(proc[process].rc, cancelled)
                                       THEN failure ELSE ResOk]
  /\ UNCHANGED << queueVars, runnerVars, proc, subVars, client, histVars, call >>

\* ffmpeg_runner.py:109-110  finally: self._process = None, and return
R_Finally(t) ==
  /\ At(t, "rc_finally")
  /\ process' = None
  /\ proc' = [proc EXCEPT ![thr[t].job] = Released(@)]
  /\ thr' = Goto(t, "res")
  /\ UNCHANGED << queueVars, cancelled, subVars, client, histVars, call >>

\* ------------------------------------------- back in _process_queue
\* job_queue.py:78-83  the state for the RenderResult, then the terminal
\* callback, which returns or raises into the except clause of line 84
W_Result(t) ==
  /\ At(t, "res")
  /\ jobState' = [jobState EXCEPT ![thr[t].job] = StateFor(thr[t].res)]
  /\ \E next \in {"finally", "except"} :
       thr' = [thr EXCEPT ![t].cb = Append(@, SignalFor(thr[t].res)),
                          ![t].pc = next]
  /\ UNCHANGED << queue, current_job, worker_thread, runnerVars,
                  proc, subVars, client, histVars, call >>

\* job_queue.py:84-86  except Exception: state failed, then the callback; an
\* exception it raises here propagates out of _process_queue once the
\* finally clause has run
W_Except(t) ==
  /\ At(t, "except")
  /\ jobState' = [jobState EXCEPT ![thr[t].job] = "failed"]
  /\ \E raised \in BOOLEAN :
       thr' = [thr EXCEPT ![t].cb = Append(@, CbError),
                          ![t].pc = "finally", ![t].exc = raised]
  /\ UNCHANGED << queue, current_job, worker_thread, runnerVars,
                  proc, subVars, client, histVars, call >>

\* job_queue.py:88 / subtitle_manager.py:66-74  cleanup()
W_Cleanup(t) ==
  /\ At(t, "finally")
  /\ fs' = CleanupFs(fs, temp_files)
  /\ temp_files' = << >>
  /\ thr' = Goto(t, "clearcur")
  /\ UNCHANGED << queueVars, runnerVars, proc, client, histVars, call >>

\* job_queue.py:89  self._current_job = None; then the next iteration, or
\* the pending exception ends the thread
W_ClearCurrent(t) ==
  /\ At(t, "clearcur")
  /\ current_job' = None
  /\ thr' = [thr EXCEPT ![t] = [NoThread EXCEPT
                                  !.pc = IF thr[t].exc THEN "dead" ELSE "loop"]]
  /\ cancelReq' = cancelReq \ {thr[t].job}
  /\ cancelAim' = [cancelAim EXCEPT ![thr[t].job] = "none"]
  /\ UNCHANGED << queue, jobState, worker_thread, runnerVars, proc,
                  subVars, client, clearedPending, call >>

Worker(t) ==
  \/ W_LoopTest(t) \/ W_Exit(t) \/ W_Pop(t) \/ W_SetCurrent(t)
  \/ W_SetRunning(t) \/ W_Prepare(t)
  \/ R_Reset(t) \/ R_Spawn(t) \/ R_Line(t) \/ R_CancelWait(t) \/ R_Eof(t)
  \/ R_ExitCheck(t) \/ R_Finally(t)
  \/ W_Result(t) \/ W_Except(t) \/ W_Cleanup(t) \/ W_ClearCurrent(t)

Process(j) == P_Write(j) \/ P_Exit(j) \/ P_Die(j) \/ P_OrphanExit(j)

Client ==
  \/ AddJobAppend
  \/ AddJobStart
  \/ ClearQueue
  \/ CancelRead1 \/ CancelRead2 \/ ClientRaised
  \/ RunnerCancelSet \/ RunnerCancelCheck \/ RunnerCancelTerminate

Next ==
  \/ Client
  \/ \E t \in ThreadIds : Worker(t)
  \/ \E j \in JobIds : Process(j)

Spec == Init /\ [][Next]_vars

\* ============================================= run_command on its own
\* FFmpegRunner.run_command called by one thread, with no cancel request, on
\* a command whose process starts.  The process is given by what it writes:
\* its stdout lines (text), the lines the drain thread collects from its
\* stderr, and its exit code.  call holds the arguments (dur is
\* total_duration_sec, hasCb whether progress_callback is not None), the
\* position in the read loop, the values passed to the callback (cbs, in
\* millionths of a percent) and the RenderResult (res, msg).
MaxStderr == 41        \* lines the process writes to stderr
TailLimit == 40        \* ffmpeg_runner.py:98  stderr_lines[-40:]
Micro == 1000000       \* ffmpeg_runner.py:87  current_us / 1_000_000.0

Digits == {"0", "1", "2", "3", "4", "5", "6", "7", "8", "9"}
DigitVal(c) ==
  CASE c = "0" -> 0 [] c = "1" -> 1 [] c = "2" -> 2 [] c = "3" -> 3
    [] c = "4" -> 4 [] c = "5" -> 5 [] c = "6" -> 6 [] c = "7" -> 7
    [] c = "8" -> 8 [] c = "9" -> 9

\* A stdout line "key=text\n": text is the sequence of the characters after
\* the first "="; isInt and n say what the text denotes (a decimal integer
\* and its value), which is what a reader of the line expects to be
\* reported.
StdoutLines ==
  { [key |-> "out_time_ms", isInt |-> TRUE,  n |-> 5000000,
       text |-> << "5", "0", "0", "0", "0", "0", "0", "\n" >>],
    [key |-> "out_time_ms", isInt |-> TRUE,  n |-> 1000000,
       text |-> << "1", "0", "0", "0", "0", "0", "0", "\n" >>],
    [key |-> "out_time_ms", isInt |-> TRUE,  n |-> 0,
       text |-> << "0", "\n" >>],
    [key |-> "out_time_ms", isInt |-> TRUE,  n |-> 20000000,
       text |-> << "2", "0", "0", "0", "0", "0", "0", "0", "\n" >>],
    [key |-> "out_time_ms", isInt |-> TRUE,  n |-> 0 - 1000000,
       text |-> << "-", "1", "0", "0", "0", "0", "0", "0", "\n" >>],
    [key |-> "out_time_ms", isInt |-> FALSE, n |-> 0,
       text |-> << "N", "/", "A", "\n" >>],
    [key |-> "out_time_ms", isInt |-> FALSE, n |-> 0,
       text |-> << "1", ".", "5", "\n" >>],
    [key |-> "progress",    isInt |-> FALSE, n |-> 0,
       text |-> << "e", "n", "d", "\n" >>] }

StdoutScripts == UNION { [1..k -> StdoutLines] : k \in 0..MaxLines }
Durations == {0 - 5, 0, 2, 10}
ExitCodes == {0, 1}
\* what a progress callback does when it is invoked
CallbackOutcomes == {"returns", "ValueError", "error"}

\* ffmpeg_runner.py:83  str.strip(): leading and trailing whitespace removed
RECURSIVE Strip(_)
Strip(txt) ==
  IF txt = << >> THEN txt
  ELSE IF Head(txt) \in {" ", "\n"} THEN Strip(Tail(txt))
  ELSE IF txt[Len(txt)] \in {" ", "\n"} THEN Strip(SubSeq(txt, 1, Len(txt) - 1))
  ELSE txt

RECURSIVE DigitsValue(_)
DigitsValue(ds) ==
  IF ds = << >> THEN 0
  ELSE DigitsValue(SubSeq(ds, 1, Len(ds) - 1)) * 10 + DigitVal(ds[Len(ds)])

\* ffmpeg_runner.py:85,90  int(raw): the value, or ValueError (ok = FALSE)
ParseInt(raw) ==
  LET signed == raw # << >> /\ Head(raw) \in {"-", "+"}
      body == IF signed THEN Tail(raw) ELSE raw
  IN IF body # << >> /\ \A i \in 1..Len(body) : body[i] \in Digits
       THEN [ok |-> TRUE,
             n |-> IF signed /\ Head(raw) = "-" THEN 0 - DigitsValue(body)
                   ELSE DigitsValue(body)]
       ELSE [ok |-> FALSE, n |-> 0]

\* a runner that reports progress for every non-zero duration
ReportsProgressNonZero(hasCb, dur) == hasCb /\ dur # 0

\* ffmpeg_runner.py:81  progress_callback and total_duration_sec > 0
ReportsProgress(hasCb, dur) == hasCb /\ dur > 0

\* exact quotient a / b of the values used here (b # 0, b divides a)
Quot(a, b) == IF b > 0 THEN a \div b ELSE 0 - (a \div (0 - b))
Min(a, b) == IF a <= b THEN a ELSE b

\* the percentage without the upper limit
PctUnclamped(us, dur) == Quot(us * 100, dur)

\* ffmpeg_runner.py:87-88  min((current_us / 1e6 / total) * 100.0, 100.0),
\* in millionths of a percent
Pct(us, dur) == Min(Quot(us * 100, dur), 100 * Micro)

\* ffmpeg_runner.py:81-91  the callback values one stdout line gives rise to
ProgressCalls(line, hasCb, dur) ==
  IF ReportsProgress(hasCb, dur) /\ line.key = "out_time_ms"
    THEN LET v == ParseInt(Strip(line.text))
         IN IF v.ok /\ v.n >= 0 THEN << Pct(v.n, dur) >> ELSE << >>
    ELSE << >>

\* the first 40 lines instead of the last
ErrHead(lines) == SubSeq(lines, 1, Min(Len(lines), TailLimit))

\* ffmpeg_runner.py:98  stderr_lines[-40:]
ErrTail(lines) ==
  SubSeq(lines, IF Len(lines) > TailLimit THEN Len(lines) - TailLimit + 1 ELSE 1,
         Len(lines))

NoMsg == [code |-> 0, tail |-> << >>]

InitRunner ==
  /\ Constructed
  /\ call \in [op : {"run_command"}, pc : {"read"}, dur : Durations,
               hasCb : BOOLEAN, out : StdoutScripts, read : {0},
               cbs : {<< >>}, exited : {FALSE}, rc : {0},
               stderr_lines : {<< >>}, res : {ResNone}, msg : {NoMsg}]

\* ffmpeg_runner.py:75-91  one iteration of the read loop; an exception of
\* the callback other than ValueError ends the call at line 107, a
\* ValueError is swallowed by line 90
RunLine ==
  /\ call.op = "run_command" /\ call.pc = "read"
  /\ call.read < Len(call.out)
  /\ LET calls == ProgressCalls(call.out[call.read + 1], call.hasCb, call.dur)
         read == [call EXCEPT !.read = @ + 1, !.cbs = @ \o calls]
     IN IF calls = << >>
          THEN call' = read
          ELSE \E how \in CallbackOutcomes :
                 call' = IF how = "error"
                           THEN [read EXCEPT !.pc = "done", !.res = ResException]
                           ELSE read
  /\ UNCHANGED << queueVars, thr, runnerVars, proc, subVars, client, histVars >>

\* ffmpeg_runner.py:93-103  end of stdout: wait for the exit code, join the
\* drain thread, and build the result
RunExit ==
  /\ call.op = "run_command" /\ call.pc = "read"
  /\ call.read = Len(call.out)
  /\ \E code \in ExitCodes, k \in 0..MaxStderr :
       LET lines == [i \in 1..k |-> i]
           fails == ExitFails(code, cancelled)
       IN call' = [call EXCEPT
                     !.pc = "done", !.exited = TRUE, !.rc = code,
                     !.stderr_lines = lines,
                     !.res = IF fails THEN ResFFmpeg ELSE ResOk,
                     !.msg = IF fails THEN [code |-> code, tail |-> ErrTail(lines)]
                             ELSE NoMsg]
  /\ UNCHANGED << queueVars, thr, runnerVars, proc, subVars, client, histVars >>

NextRunner == RunLine \/ RunExit

SpecRunner == InitRunner /\ [][NextRunner]_vars

\* ============================================== FFmpegBuilder on its own
\* The stateless command builder called with given arguments.  A command is
\* the sequence of its arguments as text; the texts that are formatted from
\* numbers (str(crf), f"{hw_mbps}M", f"{audio_kbps}k") are given formatted.
Codecs == {"libx264", "libx265", "h264_videotoolbox", "hevc_videotoolbox",
           "mpeg4"}
Qualities == {"Low", "Medium", "Best", "Ultra", ""}
\* resolution strings: "1920x1080", "1081x607", "1921x1079", "1x1", and one
\* that is not WxH
Resolutions == { [ok |-> TRUE, w |-> 1920, h |-> 1080],
                 [ok |-> TRUE, w |-> 1081, h |-> 607],
                 [ok |-> TRUE, w |-> 1921, h |-> 1079],
                 [ok |-> TRUE, w |-> 1, h |-> 1],
                 [ok |-> FALSE, w |-> 0, h |-> 0] }

\* ffmpeg_builder.py:10-14  QUALITY_PRESETS
QualityPresets ==
  [Low    |-> [crf_264 |-> "28", crf_265 |-> "32", hw |-> "4M",  audio |-> "128k"],
   Medium |-> [crf_264 |-> "20", crf_265 |-> "24", hw |-> "8M",  audio |-> "192k"],
   Best   |-> [crf_264 |-> "14", crf_265 |-> "16", hw |-> "20M", audio |-> "320k"]]

\* ffmpeg_builder.py:124-126  QUALITY_PRESETS.get(quality, ...["Medium"])
PresetOf(quality) ==
  IF quality \in DOMAIN QualityPresets THEN QualityPresets[quality]
  ELSE QualityPresets["Medium"]

\* ffmpeg_builder.py:130,133  the dict of x264/x265 preset names
SpeedPresets == [Low |-> "fast", Medium |-> "medium", Best |-> "slow"]

\* ffmpeg_builder.py:122-142  _quality_flags: the flags, or raised = TRUE
\* for the KeyError of the subscript [quality] at lines 130 and 133
QualityFlags(codec, quality) ==
  LET p == PresetOf(quality)
      audio == << "-b:a", p.audio >>
      Raised == [raised |-> TRUE, flags |-> << >>]
      Flags(f) == [raised |-> FALSE, flags |-> f \o audio]
  IN IF codec = "libx264"
       THEN IF quality \in DOMAIN SpeedPresets
              THEN Flags(<< "-crf", p.crf_264, "-preset", SpeedPresets[quality] >>)
              ELSE Raised
     ELSE IF codec = "libx265"
       THEN IF quality \in DOMAIN SpeedPresets
              THEN Flags(<< "-crf", p.crf_265, "-preset", SpeedPresets[quality],
                            "-tag:v", "hvc1" >>)
              ELSE Raised
     ELSE IF codec \in {"h264_videotoolbox", "hevc_videotoolbox"}
       THEN Flags(<< "-b:v", p.hw, "-realtime", "0" >>
                  \o IF quality = "Best" THEN << "-q:v", "60" >> ELSE << >>)
     ELSE Flags(<< "-crf", p.crf_264 >>)

\* rounding down to even
EvenSizeDown(r) == << r.w - (r.w % 2), r.h - (r.h % 2) >>

\* ffmpeg_builder.py:162-164,205-207  w += w % 2; h += h % 2
EvenSize(r) == << r.w + (r.w % 2), r.h + (r.h % 2) >>

\* ffmpeg_builder.py:149-187  build_burn_command: the command and the frame
\* size of its colour source, or raised = TRUE (resolution that does not
\* parse, exception of _quality_flags)
BurnCommand(codec, quality, hasSub, durPos, resolution) ==
  LET q == QualityFlags(codec, quality)
  IN IF ~resolution.ok \/ q.raised
       THEN [raised |-> TRUE, cmd |-> << >>, size |-> << 0, 0 >>]
       ELSE [raised |-> FALSE,
             size |-> EvenSize(resolution),
             cmd |-> << "ffmpeg", "-y", "-f", "lavfi", "-i", "color", "-i",
                        "input_video" >>
                     \o (IF hasSub
                           THEN << "-filter_complex", "[0:v]sf[v]", "-map", "[v]",
                                   "-map", "1:a?" >>
                           ELSE << "-map", "0:v", "-map", "1:a?" >>)
                     \o << "-c:v", codec, "-c:a", "aac" >>
                     \o q.flags
                     \o << "-progress", "pipe:1", "-nostats" >>
                     \o (IF durPos THEN << "-t", "duration_sec" >> ELSE << >>)
                     \o << "output_path" >>]

\* ffmpeg_builder.py:194-222  build_preview_command: the command and the
\* frame size of its colour source, or raised = TRUE
PreviewCommand(hasSub, resolution) ==
  IF ~resolution.ok
    THEN [raised |-> TRUE, cmd |-> << >>, size |-> << 0, 0 >>]
    ELSE [raised |-> FALSE,
          size |-> EvenSize(resolution),
          cmd |-> << "ffmpeg", "-y", "-ss", "time_sec", "-f", "lavfi", "-i",
                     "color" >>
                  \o (IF hasSub
                        THEN << "-filter_complex", "[0:v]sf[v]", "-map", "[v]" >>
                        ELSE << "-map", "0:v" >>)
                  \o << "-frames:v", "1", "-q:v", "1", "-f", "image2",
                        "output_path" >>]

\* the first argument instead of the last
OutputPathFirst(cmd) == IF cmd # << >> THEN cmd[1] ELSE "unknown_output"

\* ffmpeg_runner.py:102  cmd[-1] if cmd else "unknown_output"
OutputPathOf(cmd) == IF cmd # << >> THEN cmd[Len(cmd)] ELSE "unknown_output"

InitBuilder ==
  /\ Constructed
  /\ call \in [op : {"_quality_flags", "build_burn_command",
                     "build_preview_command"}, pc : {"called"},
               codec : Codecs, quality : Qualities, hasSub : BOOLEAN,
               durPos : BOOLEAN, resolution : Resolutions,
               raised : {FALSE}, out : {<< >>}, size : {<< 0, 0 >>},
               reported : {"none"}]

\* a call of FFmpegBuilder._quality_flags(codec, quality)
CallQualityFlags ==
  /\ call.op = "_quality_flags" /\ call.pc = "called"
  /\ LET q == QualityFlags(call.codec, call.quality)
     IN call' = [call EXCEPT !.pc = "done", !.raised = q.raised, !.out = q.flags]
  /\ UNCHANGED << queueVars, thr, runnerVars, proc, subVars, client, histVars >>

\* a call of FFmpegBuilder.build_burn_command(...)
CallBuildBurn ==
  /\ call.op = "build_burn_command" /\ call.pc = "called"
  /\ LET b == BurnCommand(call.codec, call.quality, call.hasSub, call.durPos,
                          call.resolution)
     IN call' = [call EXCEPT !.pc = "done", !.raised = b.raised, !.out = b.cmd,
                             !.size = b.size]
  /\ UNCHANGED << queueVars, thr, runnerVars, proc, subVars, client, histVars >>

\* a call of FFmpegBuilder.build_preview_command(...)
CallBuildPreview ==
  /\ call.op = "build_preview_command" /\ call.pc = "called"
  /\ LET b == PreviewCommand(call.hasSub, call.resolution)
     IN call' = [call EXCEPT !.pc = "done", !.raised = b.raised, !.out = b.cmd,
                             !.size = b.size]
  /\ UNCHANGED << queueVars, thr, runnerVars, proc, subVars, client, histVars >>

\* job_queue.py:67-77, ffmpeg_runner.py:101-103  the burn command is run
\* and succeeds: the output path of the RenderResult
ReportOutput ==
  /\ call.op = "build_burn_command" /\ call.pc = "done" /\ ~call.raised
  /\ call' = [call EXCEPT !.pc = "ran", !.reported = OutputPathOf(call.out)]
  /\ UNCHANGED << queueVars, thr, runnerVars, proc, subVars, client, histVars >>

NextBuilder ==
  CallQualityFlags \/ CallBuildBurn \/ CallBuildPreview \/ ReportOutput

SpecBuilder == InitBuilder /\ [][NextBuilder]_vars

\* ============================================ SubtitleManager on its own
\* One SubtitleManager instance called from one thread.  fs holds the paths
\* that exist on disk: the temporary files the manager wrote (numbered in
\* the order of their creation; a uuid makes each name new) and files it
\* did not create; temp_files is its tracked list.  call keeps the number
\* of copies made, the last operation (last), its argument (path), whether
\* it raised, what it returned (ret) and whether cleanup met a tracked path
\* that no longer existed (missing).
MaxCopies == 3         \* successful create_safe_copy calls

\* the argument of create_safe_copy: an existing file, None, "", or a path
\* that does not exist
SubtitlePaths == {"file", "none", "empty", "missing"}

\* paths the manager did not create: the user's subtitle file and a file
\* of another program in the temporary directory
ForeignFiles == {0 - 1, 0 - 2}

InitSub ==
  /\ queue = << >>
  /\ jobState = [j \in JobIds |-> "unsubmitted"]
  /\ current_job = None
  /\ worker_thread = None
  /\ thr = [t \in ThreadIds |-> NoThread]
  /\ process = None
  /\ cancelled = FALSE
  /\ proc = [j \in JobIds |-> NoProc]
  /\ temp_files = << >>
  /\ fs = ForeignFiles
  /\ client = "idle"
  /\ clearedPending = {}
  /\ cancelReq = {}
  /\ cancelAim = [j \in JobIds |-> "none"]
  /\ call = [op |-> "subtitle_manager", made |-> 0, last |-> "none",
             path |-> "none", raised |-> FALSE, ret |-> 0, missing |-> FALSE]

\* subtitle_manager.py:25-51  create_safe_copy(original_path)
CreateSafeCopy ==
  /\ call.op = "subtitle_manager"
  /\ call.made < MaxCopies
  /\ \E p \in SubtitlePaths :
       IF SafeCopyRaises([subtitle |-> p])
         THEN /\ call' = [call EXCEPT !.last = "create", !.path = p,
                                      !.raised = TRUE, !.ret = 0]
              /\ UNCHANGED subVars
         ELSE LET new == call.made + 1 IN
              /\ fs' = fs \cup {new}
              /\ temp_files' = Append(temp_files, new)
              /\ call' = [call EXCEPT !.last = "create", !.path = p,
                                      !.raised = FALSE, !.ret = new,
                                      !.made = new]
  /\ UNCHANGED << queueVars, thr, runnerVars, proc, client, histVars >>

\* cleanup() that deletes the files but keeps the tracked list
CleanupKeepsList ==
  /\ call.op = "subtitle_manager"
  /\ fs' = CleanupFs(fs, temp_files)
  /\ call' = [call EXCEPT !.last = "cleanup", !.raised = FALSE,
                          !.missing = ~(Range(temp_files) \subseteq fs)]
  /\ UNCHANGED << queueVars, thr, runnerVars, proc, temp_files, client,
                  histVars >>

\* subtitle_manager.py:66-74  cleanup(): remove each tracked path that
\* exists, then clear the list
Cleanup ==
  /\ call.op = "subtitle_manager"
  /\ fs' = CleanupFs(fs, temp_files)
  /\ temp_files' = << >>
  /\ call' = [call EXCEPT !.last = "cleanup", !.raised = FALSE,
                          !.missing = ~(Range(temp_files) \subseteq fs)]
  /\ UNCHANGED << queueVars, thr, runnerVars, proc, client, histVars >>

\* another program deletes a temporary file the manager still tracks
ExternalRemove ==
  /\ call.op = "subtitle_manager"
  /\ \E f \in fs \cap Range(temp_files) : fs' = fs \ {f}
  /\ call' = [call EXCEPT !.last = "removed"]
  /\ UNCHANGED << queueVars, thr, runnerVars, proc, temp_files, client,
                  histVars >>

NextSub == CreateSafeCopy \/ Cleanup \/ ExternalRemove

SpecSub == InitSub /\ [][NextSub]_vars

\* ======================================= SRT timecodes (SubtitleManager)
\* The four fields _TC_RE captures for one time (hours 1-2 digits, minutes
\* and seconds 2 digits, fraction 1-3 digits) are texts: sequences of digit
\* characters.  Each field below is given with the integer v its digits
\* denote.  call holds the fields of one time, the milliseconds _tc_to_ms
\* makes of them (ms), the fields _ms_to_srt_tc writes for ms (out), and
\* the milliseconds _tc_to_ms makes of those (back).
HourFields ==
  { [text |-> << "0", "0" >>, v |-> 0],  [text |-> << "1" >>, v |-> 1],
    [text |-> << "0", "1" >>, v |-> 1],  [text |-> << "1", "0" >>, v |-> 10],
    [text |-> << "9", "9" >>, v |-> 99] }
MinSecFields ==
  { [text |-> << "0", "0" >>, v |-> 0],  [text |-> << "0", "7" >>, v |-> 7],
    [text |-> << "5", "9" >>, v |-> 59] }
FracFields ==
  { [text |-> << "0" >>, v |-> 0],            [text |-> << "5" >>, v |-> 5],
    [text |-> << "7" >>, v |-> 7],            [text |-> << "0", "7" >>, v |-> 7],
    [text |-> << "7", "0" >>, v |-> 70],      [text |-> << "9", "9" >>, v |-> 99],
    [text |-> << "0", "0", "0" >>, v |-> 0],  [text |-> << "0", "0", "7" >>, v |-> 7],
    [text |-> << "0", "7", "0" >>, v |-> 70], [text |-> << "1", "0", "0" >>, v |-> 100],
    [text |-> << "5", "9", "9" >>, v |-> 599],
    [text |-> << "9", "9", "9" >>, v |-> 999] }

DigitChar(d) ==
  CASE d = 0 -> "0" [] d = 1 -> "1" [] d = 2 -> "2" [] d = 3 -> "3"
    [] d = 4 -> "4" [] d = 5 -> "5" [] d = 6 -> "6" [] d = 7 -> "7"
    [] d = 8 -> "8" [] d = 9 -> "9"

\* the decimal digits of n >= 0, as format(n, "d") writes them
RECURSIVE DecDigits(_)
DecDigits(n) ==
  IF n < 10 THEN << DigitChar(n) >>
  ELSE DecDigits(n \div 10) \o << DigitChar(n % 10) >>

\* a format without the zero flag
ZeroPadNone(ds, w) == ds

\* subtitle_manager.py:114  the 0w of {h:02d} and {ms_part:03d}
RECURSIVE ZeroPad(_, _)
ZeroPad(ds, w) == IF Len(ds) >= w THEN ds ELSE ZeroPad(<< "0" >> \o ds, w)

\* a conversion that takes the fraction digits as they are
LJustNone(ds, w) == ds

\* subtitle_manager.py:106  ms_str.ljust(3, '0')
RECURSIVE LJust(_, _)
LJust(ds, w) == IF Len(ds) >= w THEN ds ELSE LJust(ds \o << "0" >>, w)

\* subtitle_manager.py:104-107  _tc_to_ms(h, m, s, ms_str)
TcToMs(h, m, s, ms_str) ==
  (DigitsValue(h) * 3600 + DigitsValue(m) * 60 + DigitsValue(s)) * 1000
    + DigitsValue(LJust(ms_str, 3))

\* subtitle_manager.py:109-114  _ms_to_srt_tc(ms): the fields of
\* "HH:MM:SS,mmm"
MsToSrtTc(ms) ==
  LET h == ms \div 3600000
      rem1 == ms % 3600000
      m == rem1 \div 60000
      rem2 == rem1 % 60000
      sec == rem2 \div 1000
      ms_part == rem2 % 1000
  IN [h |-> ZeroPad(DecDigits(h), 2), m |-> ZeroPad(DecDigits(m), 2),
      s |-> ZeroPad(DecDigits(sec), 2), f |-> ZeroPad(DecDigits(ms_part), 3)]

NoFields == [h |-> << >>, m |-> << >>, s |-> << >>, f |-> << >>]

InitTimecode ==
  /\ Constructed
  /\ call \in [op : {"timecode"}, pc : {"matched"}, h : HourFields,
               m : MinSecFields, s : MinSecFields, f : FracFields,
               ms : {0}, out : {NoFields}, back : {0}]

\* subtitle_manager.py:159-160  _tc_to_ms(*tc_match.group(1, 2, 3, 4))
TcParse ==
  /\ call.op = "timecode" /\ call.pc = "matched"
  /\ call' = [call EXCEPT !.pc = "parsed",
                          !.ms = TcToMs(call.h.text, call.m.text, call.s.text,
                                        call.f.text)]
  /\ UNCHANGED << queueVars, thr, runnerVars, proc, subVars, client, histVars >>

\* subtitle_manager.py:178  _ms_to_srt_tc(start_ms)
TcFormat ==
  /\ call.op = "timecode" /\ call.pc = "parsed"
  /\ call' = [call EXCEPT !.pc = "written", !.out = MsToSrtTc(call.ms)]
  /\ UNCHANGED << queueVars, thr, runnerVars, proc, subVars, client, histVars >>

\* subtitle_manager.py:195  _tc_to_ms on the fields of a written timecode
TcReparse ==
  /\ call.op = "timecode" /\ call.pc = "written"
  /\ call' = [call EXCEPT !.pc = "reparsed",
                          !.back = TcToMs(call.out.h, call.out.m, call.out.s,
                                          call.out.f)]
  /\ UNCHANGED << queueVars, thr, runnerVars, proc, subVars, client, histVars >>

NextTimecode == TcParse \/ TcFormat \/ TcReparse

SpecTimecode == InitTimecode /\ [][NextTimecode]_vars

\* ============================================ _normalise_srt on its own
\* The content of an SRT file as the sequence of its lines.  A line is
\* blank (empty or white space), a number (str.isdigit), a timecode (a line
\* in which _TC_RE finds a match; it is given with the captured fields of
\* both times and the milliseconds they denote) or any other text.  call
\* holds the raw lines, the lines after strip() and split, the index i of
\* the scan (1-based), the blocks built so far and cue_index; steps counts
\* the iterations of the outer loop.  A block keeps the position src of
\* the timecode line it was made from.  A text line may end in white
\* space (PaddedLine), which strip() removes at the end of the content.
\* pass tells whether the content is an input file (1) or the text that a
\* first call returned (2); cues is the list _parse_normalised_srt made of
\* the returned text.
MaxSrtLines == 4       \* lines of an input file

BlankLine == [kind |-> "blank", v |-> 0]
NumLine(n) == [kind |-> "num", v |-> n]
TextLine == [kind |-> "text", v |-> 0]
PaddedLine == [kind |-> "text", v |-> 1]
TcLine(n) == [kind |-> "tc", v |-> n]

\* "00:00:01,07 --> 00:00:02.5" and "01:00:03,599 --> 1:00:05,000", and
\* the same two as _normalise_srt writes them
Timecodes ==
  << [start |-> [h |-> << "0", "0" >>, m |-> << "0", "0" >>, s |-> << "0", "1" >>,
                 f |-> << "0", "7" >>],
      end   |-> [h |-> << "0", "0" >>, m |-> << "0", "0" >>, s |-> << "0", "2" >>,
                 f |-> << "5" >>],
      startMs |-> 1070, endMs |-> 2500],
     [start |-> [h |-> << "0", "1" >>, m |-> << "0", "0" >>, s |-> << "0", "3" >>,
                 f |-> << "5", "9", "9" >>],
      end   |-> [h |-> << "1" >>, m |-> << "0", "0" >>, s |-> << "0", "5" >>,
                 f |-> << "0", "0", "0" >>],
      startMs |-> 3603599, endMs |-> 3605000],
     [start |-> [h |-> << "0", "0" >>, m |-> << "0", "0" >>, s |-> << "0", "1" >>,
                 f |-> << "0", "7", "0" >>],
      end   |-> [h |-> << "0", "0" >>, m |-> << "0", "0" >>, s |-> << "0", "2" >>,
                 f |-> << "5", "0", "0" >>],
      startMs |-> 1070, endMs |-> 2500],
     [start |-> [h |-> << "0", "1" >>, m |-> << "0", "0" >>, s |-> << "0", "3" >>,
                 f |-> << "5", "9", "9" >>],
      end   |-> [h |-> << "0", "1" >>, m |-> << "0", "0" >>, s |-> << "0", "5" >>,
                 f |-> << "0", "0", "0" >>],
      startMs |-> 3603599, endMs |-> 3605000] >>

SrtLines ==
  {BlankLine, NumLine(7), NumLine(2), TextLine, PaddedLine, TcLine(1), TcLine(2)}
SrtFiles == UNION { [1..k -> SrtLines] : k \in 0..MaxSrtLines }

IsBlank(l) == l.kind = "blank"
IsNum(l) == l.kind = "num"
IsTc(l) == l.kind = "tc"

\* subtitle_manager.py:129-131  content.strip().split('\n'): blank lines at
\* both ends go, and so does the white space that ends the last line; what
\* is left has at least one (possibly empty) line
RECURSIVE StripLines(_)
StripLines(ls) ==
  IF ls = << >> THEN << BlankLine >>
  ELSE IF IsBlank(Head(ls)) THEN StripLines(Tail(ls))
  ELSE IF IsBlank(ls[Len(ls)]) THEN StripLines(SubSeq(ls, 1, Len(ls) - 1))
  ELSE IF ls[Len(ls)] = PaddedLine THEN [ls EXCEPT ![Len(ls)] = TextLine]
  ELSE ls

\* subtitle_manager.py:164-172  the index at which the collection of text
\* lines that starts at k stops
RECURSIVE TextEnd(_, _)
TextEnd(ls, k) ==
  IF k > Len(ls) THEN k
  ELSE IF IsBlank(ls[k]) THEN k
  ELSE IF IsNum(ls[k]) /\ k + 1 <= Len(ls) /\ IsTc(ls[k + 1]) THEN k
  ELSE TextEnd(ls, k + 1)

\* a normaliser that keeps the number found in the input
CueNumberFromInput(cue_index, num) == IF num # 0 THEN num ELSE cue_index + 1

\* subtitle_manager.py:177  cue_index += 1 (num: the number line consumed
\* before the timecode, 0 if there was none)
CueNumber(cue_index, num) == cue_index + 1

\* subtitle_manager.py:158-180  the block for the timecode line at position
\* p with the text lines p+1 .. e-1
Block(ls, p, e, index) ==
  LET tc == Timecodes[ls[p].v]
      start_ms == TcToMs(tc.start.h, tc.start.m, tc.start.s, tc.start.f)
      end_ms == TcToMs(tc.end.h, tc.end.m, tc.end.s, tc.end.f)
      text_lines == SubSeq(ls, p + 1, e - 1)
  IN [index |-> index, start |-> MsToSrtTc(start_ms), end |-> MsToSrtTc(end_ms),
      text |-> IF text_lines = << >> THEN << BlankLine >> ELSE text_lines,
      src |-> p]

\* subtitle_manager.py:179-182  the returned text as its lines: each block
\* is its number, its timecode line and its text lines, '\n\n' between two
\* blocks leaves one empty line, and the final '\n' one more
RECURSIVE Written(_)
Written(blocks) ==
  IF blocks = << >> THEN << BlankLine >>
  ELSE LET b == Head(blocks)
           tc == CHOOSE n \in 1..Len(Timecodes) :
                   Timecodes[n].start = b.start /\ Timecodes[n].end = b.end
       IN << NumLine(b.index), TcLine(tc) >> \o b.text \o << BlankLine >>
            \o (IF Tail(blocks) = << >> THEN << >> ELSE Written(Tail(blocks)))

\* subtitle_manager.py:187-188  content.strip().split('\n\n') and block.strip()
\* .split('\n') on a returned text, whose blank lines are all empty: the
\* runs of lines between the empty lines (cur: the run being read)
RECURSIVE SplitBlocks(_, _)
SplitBlocks(ls, cur) ==
  IF ls = << >> THEN (IF cur = << >> THEN << >> ELSE << cur >>)
  ELSE IF IsBlank(Head(ls))
    THEN (IF cur = << >> THEN << >> ELSE << cur >>) \o SplitBlocks(Tail(ls), << >>)
  ELSE SplitBlocks(Tail(ls), Append(cur, Head(ls)))

\* subtitle_manager.py:184-203  _parse_normalised_srt: a block of fewer
\* than three lines, or without a timecode in its second line, is passed
\* over
RECURSIVE ParseBlocks(_, _)
ParseBlocks(bs, cues) ==
  IF bs = << >> THEN cues
  ELSE LET lines == Head(bs) IN
    IF Len(lines) < 3 \/ ~IsTc(lines[2]) THEN ParseBlocks(Tail(bs), cues)
    ELSE LET tc == Timecodes[lines[2].v]
         IN ParseBlocks(Tail(bs),
              Append(cues,
                [index |-> Len(cues) + 1,
                 start_ms |-> TcToMs(tc.start.h, tc.start.m, tc.start.s, tc.start.f),
                 end_ms |-> TcToMs(tc.end.h, tc.end.m, tc.end.s, tc.end.f)]))

InitNorm ==
  /\ Constructed
  /\ call \in [op : {"_normalise_srt"}, pc : {"called"}, raw : SrtFiles,
               lines : {<< >>}, i : {1}, blocks : {<< >>}, cue_index : {0},
               steps : {0}, pass : {1}, cues : {<< >>}]

\* subtitle_manager.py:129-135
NormSplit ==
  /\ call.op = "_normalise_srt" /\ call.pc = "called"
  /\ call' = [call EXCEPT !.pc = "scan", !.lines = StripLines(call.raw)]
  /\ UNCHANGED << queueVars, thr, runnerVars, proc, subVars, client, histVars >>

\* subtitle_manager.py:136-180  one iteration of  while i < len(lines)
NormStep ==
  /\ call.op = "_normalise_srt" /\ call.pc = "scan"
  /\ call.i <= Len(call.lines)
  /\ LET ls == call.lines
         i == call.i
         hasNum == IsNum(ls[i])
         p == IF hasNum THEN i + 1 ELSE i
         e == TextEnd(ls, p + 1)
         index == CueNumber(call.cue_index, IF hasNum THEN ls[i].v ELSE 0)
         step == [call EXCEPT !.steps = @ + 1]
     IN call' =
          IF IsBlank(ls[i]) THEN [step EXCEPT !.i = i + 1]
          ELSE IF p > Len(ls) THEN [step EXCEPT !.i = p, !.pc = "join"]
          ELSE IF ~IsTc(ls[p]) THEN [step EXCEPT !.i = p + 1]
          ELSE [step EXCEPT !.i = e, !.cue_index = index,
                            !.blocks = Append(@, Block(ls, p, e, index))]
  /\ UNCHANGED << queueVars, thr, runnerVars, proc, subVars, client, histVars >>

\* subtitle_manager.py:136,147,182  the loop condition fails, or break: the
\* blocks are joined and returned
NormReturn ==
  /\ call.op = "_normalise_srt"
  /\ \/ call.pc = "scan" /\ call.i > Len(call.lines)
     \/ call.pc = "join"
  /\ call' = [call EXCEPT !.pc = "done"]
  /\ UNCHANGED << queueVars, thr, runnerVars, proc, subVars, client, histVars >>

\* subtitle_manager.py:60-61  parse_srt_cues hands the returned text to
\* _parse_normalised_srt
ParseNormalised ==
  /\ call.op = "_normalise_srt" /\ call.pc = "done" /\ call.pass = 1
  /\ call' = [call EXCEPT !.pc = "parsed",
                          !.cues = ParseBlocks(SplitBlocks(Written(call.blocks), << >>),
                                               << >>)]
  /\ UNCHANGED << queueVars, thr, runnerVars, proc, subVars, client, histVars >>

\* subtitle_manager.py:116  _normalise_srt called on the text it returned
NormAgain ==
  /\ call.op = "_normalise_srt" /\ call.pc = "done" /\ call.pass = 1
  /\ call' = [call EXCEPT !.pc = "called", !.pass = 2,
                          !.raw = Written(call.blocks), !.lines = << >>, !.i = 1,
                          !.blocks = << >>, !.cue_index = 0, !.steps = 0]
  /\ UNCHANGED << queueVars, thr, runnerVars, proc, subVars, client, histVars >>

NextNorm == NormSplit \/ NormStep \/ NormReturn \/ ParseNormalised \/ NormAgain

SpecNorm == InitNorm /\ [][NextNorm]_vars

\* ================================================================ SpecFilter
\* FFmpegBuilder._hex_to_ass_color, _parse_styles and build_subtitle_filter,
\* one call each.  Text is a sequence of characters.

MaxPairs == 2
MaxPath == 3

\* ffmpeg_builder.py:52-63  the keys of d, in the order of the dict
StyleKeys ==
  << "FontName", "FontSize", "MarginV", "Shadow", "Outline", "PrimaryColour",
     "OutlineColour", "OutlineAlpha", "Bold", "Italic" >>

\* ffmpeg_builder.py:64  int_keys
IntKeys == {"FontSize", "MarginV", "Shadow", "Outline", "OutlineAlpha"}

\* the characters of a key name
KeyText(key) ==
  CASE key = "FontName" -> << "F", "o", "n", "t", "N", "a", "m", "e" >>
    [] key = "FontSize" -> << "F", "o", "n", "t", "S", "i", "z", "e" >>
    [] key = "MarginV" -> << "M", "a", "r", "g", "i", "n", "V" >>
    [] key = "Shadow" -> << "S", "h", "a", "d", "o", "w" >>
    [] key = "Outline" -> << "O", "u", "t", "l", "i", "n", "e" >>
    [] key = "PrimaryColour" -> << "P", "r", "i", "m", "a", "r", "y", "C", "o", "l", "o", "u", "r" >>
    [] key = "OutlineColour" -> << "O", "u", "t", "l", "i", "n", "e", "C", "o", "l", "o", "u", "r" >>
    [] key = "OutlineAlpha" -> << "O", "u", "t", "l", "i", "n", "e", "A", "l", "p", "h", "a" >>
    [] key = "Bold" -> << "B", "o", "l", "d" >>
    [] key = "Italic" -> << "I", "t", "a", "l", "i", "c" >>

\* ffmpeg_builder.py:52-63  the defaults of d
Defaults ==
  [FontName |-> << "A", "r", "i", "a", "l" >>, FontSize |-> 50, MarginV |-> 60, Shadow |-> 2,
   Outline |-> 0, PrimaryColour |-> << "#", "F", "F", "F", "F", "F", "F" >>,
   OutlineColour |-> << "#", "0", "0", "0", "0", "0", "0" >>, OutlineAlpha |-> 0,
   Bold |-> << "0" >>, Italic |-> << "0" >>]

\* A "key=value" piece of the style string: text is its characters; key is
\* the name before the first "=", isInt and n say whether the value is a
\* decimal integer and which, and hex is that integer limited to 0..255 as
\* two hexadecimal digits (OutlineAlpha pieces only).
StylePairs ==
  { [key |-> "Outline", isInt |-> TRUE, n |-> 0, hex |-> << >>,
       text |-> << "O", "u", "t", "l", "i", "n", "e", "=", "0" >>],
    [key |-> "Outline", isInt |-> TRUE, n |-> 3, hex |-> << >>,
       text |-> << "O", "u", "t", "l", "i", "n", "e", "=", "3" >>],
    [key |-> "XOutline", isInt |-> TRUE, n |-> 3, hex |-> << >>,
       text |-> << "X", "O", "u", "t", "l", "i", "n", "e", "=", "3" >>],
    [key |-> "Outline", isInt |-> FALSE, n |-> 0, hex |-> << >>,
       text |-> << "O", "u", "t", "l", "i", "n", "e", "=", "a", "b", "c" >>],
    [key |-> "OutlineAlpha", isInt |-> TRUE, n |-> 300, hex |-> << "F", "F" >>,
       text |-> << "O", "u", "t", "l", "i", "n", "e", "A", "l", "p", "h", "a", "=", "3", "0", "0" >>],
    [key |-> "OutlineAlpha", isInt |-> TRUE, n |-> -5, hex |-> << "0", "0" >>,
       text |-> << "O", "u", "t", "l", "i", "n", "e", "A", "l", "p", "h", "a", "=", "-", "5" >>],
    [key |-> "OutlineAlpha", isInt |-> TRUE, n |-> 128, hex |-> << "8", "0" >>,
       text |-> << "O", "u", "t", "l", "i", "n", "e", "A", "l", "p", "h", "a", "=", "1", "2", "8" >>],
    [key |-> "OutlineColour", isInt |-> FALSE, n |-> 0, hex |-> << >>,
       text |-> << "O", "u", "t", "l", "i", "n", "e", "C", "o", "l", "o", "u", "r", "=", "#", "0", "0", "F", "F", "0", "0" >>],
    [key |-> "PrimaryColour", isInt |-> FALSE, n |-> 0, hex |-> << >>,
       text |-> << "P", "r", "i", "m", "a", "r", "y", "C", "o", "l", "o", "u", "r", "=", "#", "F", "F", "0", "0", "0", "0" >>],
    [key |-> "FontSize", isInt |-> TRUE, n |-> 42, hex |-> << >>,
       text |-> << "F", "o", "n", "t", "S", "i", "z", "e", "=", "4", "2" >>],
    [key |-> "Foo", isInt |-> TRUE, n |-> 1, hex |-> << >>,
       text |-> << "F", "o", "o", "=", "1" >>],
    [key |-> "FontName", isInt |-> FALSE, n |-> 0, hex |-> << >>,
       text |-> << "F", "o", "n", "t", "N", "a", "m", "e", "=", "H", "e", "l", "v", "e", "t", "i", "c", "a" >>],
    [key |-> "Bold", isInt |-> TRUE, n |-> 1, hex |-> << >>,
       text |-> << "B", "o", "l", "d", "=", "1" >>] }

\* the lists of pieces the UI may join (main_window.py:860-870)
StyleLists == UNION { [1..k -> StylePairs] : k \in 0..MaxPairs }

\* the comma-separated style string of a list of pieces
RECURSIVE Join(_)
Join(ps) ==
  IF ps = << >> THEN << >>
  ELSE IF Len(ps) = 1 THEN ps[1].text
  ELSE ps[1].text \o << "," >> \o Join(Tail(ps))

\* A colour argument: text is its characters; six says that 6 characters
\* remain after the leading "#"s, and rr, gg, bb are then the three
\* channel pairs.
Colours ==
  { [text |-> << "#", "F", "F", "F", "F", "F", "F" >>, six |-> TRUE,
       rr |-> << "F", "F" >>, gg |-> << "F", "F" >>, bb |-> << "F", "F" >>],
    [text |-> << "#", "F", "F", "0", "0", "0", "0" >>, six |-> TRUE,
       rr |-> << "F", "F" >>, gg |-> << "0", "0" >>, bb |-> << "0", "0" >>],
    [text |-> << "#", "0", "0", "F", "F", "0", "0" >>, six |-> TRUE,
       rr |-> << "0", "0" >>, gg |-> << "F", "F" >>, bb |-> << "0", "0" >>],
    [text |-> << "#", "0", "0", "0", "0", "F", "F" >>, six |-> TRUE,
       rr |-> << "0", "0" >>, gg |-> << "0", "0" >>, bb |-> << "F", "F" >>],
    [text |-> << "#", "0", "0", "0", "0", "0", "0" >>, six |-> TRUE,
       rr |-> << "0", "0" >>, gg |-> << "0", "0" >>, bb |-> << "0", "0" >>],
    [text |-> << "f", "f", "0", "0", "0", "0" >>, six |-> TRUE,
       rr |-> << "f", "f" >>, gg |-> << "0", "0" >>, bb |-> << "0", "0" >>],
    [text |-> << "1", "2", "A", "B", "9", "F" >>, six |-> TRUE,
       rr |-> << "1", "2" >>, gg |-> << "A", "B" >>, bb |-> << "9", "F" >>],
    [text |-> << "#", "#", "1", "1", "2", "2", "3", "3" >>, six |-> TRUE,
       rr |-> << "1", "1" >>, gg |-> << "2", "2" >>, bb |-> << "3", "3" >>],
    [text |-> << "#", "a", "b", "c" >>, six |-> FALSE,
       rr |-> << >>, gg |-> << >>, bb |-> << >>],
    [text |-> << "1", "2", "3", "4", "5", "6", "7" >>, six |-> FALSE,
       rr |-> << >>, gg |-> << >>, bb |-> << >>],
    [text |-> << >>, six |-> FALSE,
       rr |-> << >>, gg |-> << >>, bb |-> << >>] }

\* An alpha argument: v is the integer, hex its hexadecimal digits in two
\* places.
Alphas ==
  { [v |-> 0, hex |-> << "0", "0" >>], [v |-> 15, hex |-> << "0", "F" >>],
    [v |-> 85, hex |-> << "5", "5" >>], [v |-> 255, hex |-> << "F", "F" >>],
    [v |-> 256, hex |-> << "1", "0", "0" >>] }

\* subtitle paths, made of a plain character and the three that the filter
\* syntax gives a meaning to
Paths == UNION { [1..k -> {"a", "\\", ":", "'"}] : k \in 0..MaxPath }

\* str.lstrip(c)
RECURSIVE LStrip(_, _)
LStrip(s, c) == IF s # << >> /\ Head(s) = c THEN LStrip(Tail(s), c) ELSE s

HexChar(d) ==
  CASE d < 10 -> DigitChar(d)
    [] d = 10 -> "A" [] d = 11 -> "B" [] d = 12 -> "C" [] d = 13 -> "D"
    [] d = 14 -> "E" [] d = 15 -> "F"

\* the hexadecimal digits of n >= 0, as format(n, "X") writes them
RECURSIVE HexDigits(_)
HexDigits(n) ==
  IF n < 16 THEN << HexChar(n) >>
  ELSE HexDigits(n \div 16) \o << HexChar(n % 16) >>

\* ffmpeg_builder.py:42  {alpha:02X}: two places, the sign counted in
FormatHex2(alpha) ==
  IF alpha < 0 THEN << "-" >> \o ZeroPad(HexDigits(0 - alpha), 1)
  ELSE ZeroPad(HexDigits(alpha), 2)

\* the channels in the order of the argument
ChannelsRGB(hex) == hex

\* ffmpeg_builder.py:41-42  r, g, b = ...; {b}{g}{r}
Channels(hex) == SubSeq(hex, 5, 6) \o SubSeq(hex, 3, 4) \o SubSeq(hex, 1, 2)

\* ffmpeg_builder.py:33-42  _hex_to_ass_color(hex_color, alpha)
HexToAssColor(hex_color, alpha) ==
  LET stripped == LStrip(hex_color, "#")
      six == IF Len(stripped) # 6 THEN << "F", "F", "F", "F", "F", "F" >>
             ELSE stripped
  IN << "&", "H" >> \o FormatHex2(alpha) \o Channels(six)

\* ffmpeg_builder.py:66  re.search(key=([^,]+), s): the position of the
\* leftmost place where pat is followed by a character other than ",",
\* 0 if there is none
Search(s, pat) ==
  LET ps == { p \in 1..Len(s) :
                /\ p + Len(pat) <= Len(s)
                /\ SubSeq(s, p, p + Len(pat) - 1) = pat
                /\ s[p + Len(pat)] # "," }
  IN IF ps = {} THEN 0 ELSE CHOOSE p \in ps : \A q \in ps : p <= q

\* ffmpeg_builder.py:66  the group ([^,]+) that starts at position i
RECURSIVE Group(_, _)
Group(s, i) ==
  IF i > Len(s) \/ s[i] = "," THEN << >> ELSE << s[i] >> \o Group(s, i + 1)

\* ffmpeg_builder.py:66-68  m and val for one key
StyleValue(s, key) ==
  LET pat == KeyText(key) \o << "=" >>
      p == Search(s, pat)
  IN IF p = 0 THEN [found |-> FALSE, val |-> << >>]
     ELSE [found |-> TRUE, val |-> Strip(Group(s, p + Len(pat)))]

\* ffmpeg_builder.py:49-69  _parse_styles(s): the dict d, or raised = TRUE
\* when int(val) raises ValueError
ParseStyles(s) ==
  LET keys == { StyleKeys[i] : i \in 1..Len(StyleKeys) }
      bad == \E key \in IntKeys :
               StyleValue(s, key).found /\ ~ParseInt(StyleValue(s, key).val).ok
  IN IF bad THEN [raised |-> TRUE, d |-> Defaults]
     ELSE [raised |-> FALSE,
           d |-> [key \in keys |->
                    LET m == StyleValue(s, key)
                    IN IF ~m.found THEN Defaults[key]
                       ELSE IF key \in IntKeys THEN ParseInt(m.val).n
                       ELSE m.val]]

\* ffmpeg_builder.py:91  min(255, max(0, s['OutlineAlpha']))
Clamp(alpha) == Min(255, IF 0 > alpha THEN 0 ELSE alpha)

\* str(n) of an integer
IntText(n) == IF n < 0 THEN << "-" >> \o DecDigits(0 - n) ELSE DecDigits(n)

\* str.replace(c, r)
RECURSIVE Replace(_, _, _)
Replace(s, c, r) ==
  IF s = << >> THEN << >>
  ELSE (IF Head(s) = c THEN r ELSE << Head(s) >>) \o Replace(Tail(s), c, r)

\* the three replacements with the backslash last
SafePathBackslashLast(p) ==
  Replace(Replace(Replace(p, ":", << "\\", ":" >>), "'", << "\\", "'" >>),
          "\\", << "\\", "\\" >>)

\* ffmpeg_builder.py:110-114  safe_path
SafePath(p) ==
  Replace(Replace(Replace(p, "\\", << "\\", "\\" >>), ":", << "\\", ":" >>),
          "'", << "\\", "'" >>)

\* ffmpeg_builder.py:76-115  build_subtitle_filter: the text between the
\* quotes of subtitles='...' and the key=value pieces of force_style, in
\* order, or raised = TRUE
SubtitleFilter(safe_sub_path, sub_styles_str) ==
  LET p == ParseStyles(sub_styles_str)
      s == p.d
  IN IF p.raised
       THEN [raised |-> TRUE, embedded |-> << >>, force_style |-> << >>]
       ELSE [raised |-> FALSE,
             embedded |-> SafePath(safe_sub_path),
             force_style |->
               << [key |-> "FontName", val |-> s.FontName],
                  [key |-> "FontSize", val |-> IntText(s.FontSize)],
                  [key |-> "PrimaryColour",
                   val |-> HexToAssColor(s.PrimaryColour, 0)],
                  [key |-> "OutlineColour",
                   val |-> HexToAssColor(s.OutlineColour, Clamp(s.OutlineAlpha))],
                  [key |-> "MarginV", val |-> IntText(s.MarginV)],
                  [key |-> "BorderStyle", val |-> IntText(1)],
                  [key |-> "Outline", val |-> IntText(s.Outline)],
                  [key |-> "Shadow", val |-> IntText(s.Shadow)],
                  [key |-> "Bold", val |-> s.Bold],
                  [key |-> "Italic", val |-> s.Italic],
                  [key |-> "Alignment", val |-> << "2" >>] >>]

\* the arguments of one call; an argument the operation does not take has
\* a fixed value that the operation never reads
FilterCall(op, colour, alpha, pairs, path) ==
  [op |-> op, pc |-> "called", colour |-> colour, alpha |-> alpha,
   pairs |-> pairs, styles |-> Join(pairs), path |-> path,
   raised |-> FALSE, d |-> Defaults, token |-> << >>,
   force_style |-> << >>, embedded |-> << >>]

InitFilter ==
  /\ Constructed
  /\ call \in
       { FilterCall("_hex_to_ass_color", c, a, << >>, << >>) :
           c \in Colours, a \in Alphas }
       \cup { FilterCall(op, CHOOSE c \in Colours : c.text = << >>,
                         CHOOSE a \in Alphas : a.v = 0, ps, << "a", "a" >>) :
                op \in {"_parse_styles", "build_subtitle_filter"},
                ps \in StyleLists }
       \cup { FilterCall("build_subtitle_filter",
                         CHOOSE c \in Colours : c.text = << >>,
                         CHOOSE a \in Alphas : a.v = 0, << >>, p) :
                p \in Paths }

\* a call of FFmpegBuilder._hex_to_ass_color(hex_color, alpha)
CallHexToAssColor ==
  /\ call.op = "_hex_to_ass_color" /\ call.pc = "called"
  /\ call' = [call EXCEPT !.pc = "done",
                          !.token = HexToAssColor(call.colour.text, call.alpha.v)]
  /\ UNCHANGED << queueVars, thr, runnerVars, proc, subVars, client, histVars >>

\* a call of FFmpegBuilder._parse_styles(s)
CallParseStyles ==
  /\ call.op = "_parse_styles" /\ call.pc = "called"
  /\ LET p == ParseStyles(call.styles)
     IN call' = [call EXCEPT !.pc = "done", !.raised = p.raised, !.d = p.d]
  /\ UNCHANGED << queueVars, thr, runnerVars, proc, subVars, client, histVars >>

\* a call of FFmpegBuilder.build_subtitle_filter(safe_sub_path, sub_styles_str)
CallBuildSubtitleFilter ==
  /\ call.op = "build_subtitle_filter" /\ call.pc = "called"
  /\ LET f == SubtitleFilter(call.path, call.styles)
     IN call' = [call EXCEPT !.pc = "done", !.raised = f.raised,
                             !.d = ParseStyles(call.styles).d,
                             !.embedded = f.embedded,
                             !.force_style = f.force_style]
  /\ UNCHANGED << queueVars, thr, runnerVars, proc, subVars, client, histVars >>

NextFilter == CallHexToAssColor \/ CallParseStyles \/ CallBuildSubtitleFilter

SpecFilter == InitFilter /\ [][NextFilter]_vars

\* ====================================== render_green_sub on the shared queue
\* MediaEngine.render_green_sub and the worker of the one JobQueue that
\* MediaEngine.get_queue creates.  A progress callback is named by the
\* number of the submission it was supplied with; 0 is the printing lambda
\* that get_queue gives the queue, and "no callback supplied".  call holds:
\* made (the global queue exists), cb (the queue's _progress_callback),
\* queue, next (the number of the next submission), cur (the job the worker
\* runs, 0 for none), arg (the callback passed to run_command), lines (the
\* progress reports of the running job), given (the callback supplied with
\* each job) and got (the callbacks that received a signal of each job).
MaxRenders == 3        \* submissions through render_green_sub

InitEngine ==
  /\ Constructed
  /\ call = [op |-> "render_green_sub", made |-> FALSE, cb |-> 0,
             queue |-> << >>, next |-> 1, cur |-> 0, arg |-> 0, lines |-> 0,
             given |-> [j \in 1..MaxRenders |-> 0],
             got |-> [j \in 1..MaxRenders |-> {}]]

\* media_engine.py:128-137 (get_queue: 108-114)  the queue is made on the
\* first call; a supplied callback replaces the queue's; add_job appends
RenderGreenSub ==
  /\ call.op = "render_green_sub"
  /\ call.next <= MaxRenders
  /\ \E supplied \in BOOLEAN :
       call' = [call EXCEPT !.made = TRUE,
                            !.cb = IF supplied THEN call.next ELSE @,
                            !.given[call.next] = IF supplied THEN call.next ELSE 0,
                            !.queue = Append(@, call.next),
                            !.next = @ + 1]
  /\ UNCHANGED << queueVars, thr, runnerVars, proc, subVars, client, histVars >>

\* job_queue.py:61-77  the worker takes the head of the queue and calls
\* run_command with the callback the queue holds at that moment
EngineStart ==
  /\ call.op = "render_green_sub"
  /\ call.cur = 0 /\ call.queue # << >>
  /\ call' = [call EXCEPT !.cur = Head(call.queue), !.queue = Tail(@),
                          !.arg = call.cb, !.lines = 0]
  /\ UNCHANGED << queueVars, thr, runnerVars, proc, subVars, client, histVars >>

\* ffmpeg_runner.py:89  progress_callback(pct, ""): the argument of the call
EngineProgress ==
  /\ call.op = "render_green_sub"
  /\ call.cur # 0 /\ call.lines < MaxLines
  /\ call' = [call EXCEPT !.got[call.cur] = @ \cup {call.arg}, !.lines = @ + 1]
  /\ UNCHANGED << queueVars, thr, runnerVars, proc, subVars, client, histVars >>

\* job_queue.py:78-89  the terminal signal goes to self._progress_callback
\* as it is now; then the job is done
EngineFinish ==
  /\ call.op = "render_green_sub"
  /\ call.cur # 0
  /\ call' = [call EXCEPT !.got[call.cur] = @ \cup {call.cb}, !.cur = 0,
                          !.arg = 0, !.lines = 0]
  /\ UNCHANGED << queueVars, thr, runnerVars, proc, subVars, client, histVars >>

NextEngine == RenderGreenSub \/ EngineStart \/ EngineProgress \/ EngineFinish

SpecEngine == InitEngine /\ [][NextEngine]_vars

\* ================================================================ claims
Running == { j \in JobIds : jobState[j] = "running" }
Started(j) == jobState[j] \in {"running"} \cup Terminal
HeldBy(t, j) == thr[t].job = j
\* a pending job that is in no list and in no worker's hands
Discarded(j) ==
  /\ jobState[j] = "pending"
  /\ j \notin Range(queue)
  /\ \A t \in ThreadIds : ~HeldBy(t, j)
\* the worker is between create_safe_copy and cleanup for its job
InPipeline(t) ==
  thr[t].pc \in {"rc_reset", "rc_spawn", "rc_read", "rc_cwait", "rc_exit",
                 "rc_finally", "res", "except", "finally"}
IsPct(v) == v # CbDone /\ v # CbError
TerminalCalls(log) == { i \in 1..Len(log) : ~IsPct(log[i]) }

\* C1: in every reachable state at most one job has state "running" and at
\* most one worker thread is alive, under every interleaving of add_job,
\* cancel_current_job and clear_queue with the worker.
C1_AtMostOneRunning ==
  /\ Cardinality(Running) <= 1
  /\ Cardinality(AliveThreads) <= 1

\* C1 witness: a job is running, another is queued behind it and the one
\* worker is alive while add_job is deciding whether to start a worker.
C1_Witness ==
  /\ Cardinality(Running) = 1
  /\ queue # << >>
  /\ Cardinality(AliveThreads) = 1
  /\ client = "aj_check"

\* C2: a job's state only moves unsubmitted -> pending -> running ->
\* {completed, failed, cancelled}; the terminal state is written once and
\* never changes afterwards, whether or not the callback returns normally.
C2_StateMachine ==
  [][\A j \in JobIds :
       jobState'[j] # jobState[j] =>
         \/ jobState[j] = "unsubmitted" /\ jobState'[j] = "pending"
         \/ jobState[j] = "pending" /\ jobState'[j] = "running"
         \/ jobState[j] = "running" /\ jobState'[j] \in Terminal]_vars

\* C3: when a cancellation request (flag set, terminate sent) reaches a
\* job's process while run_command is reading its output, run_command
\* returns the user cancellation failure and the job's terminal state is
\* "cancelled", whether or not the process writes another line.
C3_CancelledWhenRequested ==
  \A t \in ThreadIds :
    thr[t].job \in cancelReq =>
      /\ thr[t].res # ResNone => thr[t].res = ResCancelled
      /\ jobState[thr[t].job] \in Terminal => jobState[thr[t].job] = "cancelled"

\* C4: jobs start in submission order (job ids are handed out in submission
\* order): whenever a job has started, every job submitted before it has
\* reached a terminal state or was discarded and will never start; queued
\* jobs wait in submission order behind every job a worker holds.
C4_Fifo ==
  /\ \A a, b \in JobIds :
       a < b /\ Started(b) => jobState[a] \in Terminal \/ Discarded(a)
  /\ \A i, k \in 1..Len(queue) : i < k => queue[i] < queue[k]
  /\ \A t \in ThreadIds : \A i \in 1..Len(queue) :
       thr[t].job # None => thr[t].job < queue[i]

\* C4 witness: the first job has reached a terminal state and the second,
\* submitted after it, is running.
C4_Witness == jobState[1] \in Terminal /\ jobState[2] = "running"

\* C5: every submitted job that clear_queue does not discard is eventually
\* processed without a further add_job call; so whenever add_job has
\* returned and jobs are queued, a worker is alive to pick them up.
C5_NoStrandedJob ==
  (client = "idle" /\ AliveThreads = {}) => queue = << >>

\* C6: a job that was submitted and not yet marked "running" when
\* clear_queue emptied the queue never enters "running" afterwards.
C6_ClearedNeverRuns ==
  \A j \in clearedPending : jobState[j] = "pending"

\* C7: no step of cancel_current_job removes, reorders or changes a queued
\* job: it leaves the queue and every job's state as they are, and a queued
\* job leaves the queue only as the head popped by the worker (which then
\* holds it and goes on to mark it running) or by clear_queue.
CancelStep ==
  /\ client' # client
  /\ \/ client \in {"cc_read1", "cc_read2", "cn_set", "cn_check", "cn_term"}
     \/ client = "idle" /\ client' = "cc_read2"
C9_NoSubtitleStillRendered ==
  \A t \in ThreadIds :
    (/\ thr[t].inp.subtitle = "none"
     /\ thr[t].inp.buildOk
     /\ thr[t].job # None
     /\ jobState[thr[t].job] = "failed") => thr[t].res # ResNone

\* C10: for each job the percentage callbacks come in the order of their
\* stdout lines and before the terminal callback (101 or -1); exactly one
\* terminal callback is made per processed job and nothing follows it.
C10_CallbackOrder ==
  \A t \in ThreadIds :
    LET log == thr[t].cb IN
    /\ \A i, k \in 1..Len(log) :
         i < k /\ IsPct(log[i]) /\ IsPct(log[k]) => log[i] < log[k]
    /\ \A i \in TerminalCalls(log) : i = Len(log)
    /\ Cardinality(TerminalCalls(log)) <= 1
    /\ thr[t].pc = "clearcur" => Cardinality(TerminalCalls(log)) = 1

C12_FailureIsLocal ==
  [][/\ \A j \in JobIds :
          /\ (jobState'[j] = "running" /\ jobState[j] # "running") =>
               jobState[j] = "pending"
          /\ (j \in Range(queue') /\ j \notin Range(queue)) =>
               jobState[j] = "unsubmitted"
     /\ \A t \in ThreadIds :
          (thr[t].pc = "clearcur" /\ thr'[t].pc # "clearcur" /\ queue # << >>) =>
            thr'[t].pc = "loop"]_vars

RunnerPcs == {"rc_reset", "rc_spawn", "rc_read", "rc_cwait", "rc_exit",
              "rc_finally"}

C14_BinaryNotFound ==
  \A t \in ThreadIds :
    (thr[t].job # None /\ proc[thr[t].job].st = "nobin") =>
      /\ thr[t].pc = "rc_finally"
      /\ thr[t].res = ResNotFound
      /\ Contains(ErrorMessage(thr[t].res), << "not", "found" >>)
      /\ ~Contains(ErrorMessage(thr[t].res), << "Runner", "exception" >>)
      /\ ErrorMessage(thr[t].res) # ErrorMessage(ResException)

\* C14 witness: Popen found no binary and run_command is about to return.
C14_Witness ==
  \E t \in ThreadIds :
    /\ thr[t].job # None
    /\ proc[thr[t].job].st = "nobin"
    /\ thr[t].pc = "rc_finally"

\* C15: with a callback and a duration D > 0, the iteration of the read
\* loop on a line out_time_ms=N with N a non-negative integer invokes the
\* callback exactly once, with min(100, N / 1000000 / D * 100), a value in
\* [0, 100] (50 for N = 5000000, 10 for N = 1000000, D = 10); on a line
\* whose value is negative or not an integer it invokes nothing and the loop
\* goes on without a failure.
C15_ProgressValue ==
  [][(/\ call.pc = "read" /\ call'.read = call.read + 1
      /\ call.hasCb /\ call.dur > 0
      /\ call.out[call'.read].key = "out_time_ms") =>
       LET line == call.out[call'.read]
           d == call.dur
           v == call'.cbs[Len(call'.cbs)]
       IN IF line.isInt /\ line.n >= 0
            THEN /\ call'.cbs = Append(call.cbs, v)
                 /\ 0 <= v /\ v <= 100 * Micro
                 /\ IF line.n <= Micro * d
                      THEN v * d = line.n * 100
                      ELSE v = 100 * Micro
                 /\ (line.n = 5000000 /\ d = 10) => v = 50 * Micro
                 /\ (line.n = 1000000 /\ d = 10) => v = 10 * Micro
            ELSE /\ call'.cbs = call.cbs
                 /\ call'.pc = "read" /\ call'.res = ResNone]_vars

\* C15 witness: with D = 10 the line out_time_ms=5000000 was reported as 50.
C15_Witness ==
  /\ call.op = "run_command" /\ call.dur = 10
  /\ call.read = 1 /\ call.out[1].n = 5000000
  /\ call.cbs = << 50 * Micro >>

\* C16: when the expected duration is zero or negative, run_command invokes
\* the progress callback zero times, whatever the process writes to stdout.
C16_NoProgressWithoutDuration ==
  (call.op = "run_command" /\ call.dur <= 0) => call.cbs = << >>

\* C16 witness: run_command has returned for a negative duration after
\* reading a well-formed out_time_ms line, with a callback given.
C16_Witness ==
  /\ call.op = "run_command" /\ call.dur < 0 /\ call.hasCb
  /\ call.pc = "done" /\ call.read >= 1
  /\ call.out[1].key = "out_time_ms" /\ call.out[1].isInt /\ call.out[1].n > 0

\* C17: when the process has exited with a non-zero code (and no cancel was
\* requested) run_command returns the FFmpeg failure whose message carries
\* the exit code followed by the last min(40, number read) lines read from
\* stderr, in their order.
C17_ErrorTail ==
  (call.op = "run_command" /\ call.exited /\ call.rc # 0 /\ ~cancelled) =>
    LET all == call.stderr_lines
        tail == call.msg.tail
        skip == Len(all) - Len(tail)
    IN /\ call.pc = "done" /\ call.res = ResFFmpeg
       /\ call.msg.code = call.rc
       /\ Len(tail) <= 40 /\ skip >= 0
       /\ Len(tail) = 40 \/ skip = 0
       /\ \A i \in 1..Len(tail) : tail[i] = all[skip + i]

\* C17 witness: the process wrote more than 40 lines to stderr and exited
\* with code 1.
C17_Witness ==
  /\ call.op = "run_command" /\ call.exited /\ call.rc = 1
  /\ Len(call.stderr_lines) > 40
  /\ Len(call.msg.tail) = 40

\* the flags of the Medium tier for each codec (ffmpeg_builder.py:12,129-141)
MediumFlags(codec) ==
  CASE codec = "libx264" -> << "-crf", "20", "-preset", "medium", "-b:a", "192k" >>
    [] codec = "libx265" -> << "-crf", "24", "-preset", "medium", "-tag:v", "hvc1",
                               "-b:a", "192k" >>
    [] codec \in {"h264_videotoolbox", "hevc_videotoolbox"} ->
                            << "-b:v", "8M", "-realtime", "0", "-b:a", "192k" >>
    [] OTHER -> << "-crf", "20", "-b:a", "192k" >>

\* C18: for every codec, a quality name other than Low, Medium and Best
\* makes _quality_flags return exactly the flags of the Medium tier, and
\* build_burn_command a command that carries them after "-c:a aac", without
\* raising.
C18_QualityFallback ==
  (/\ call.op \in {"_quality_flags", "build_burn_command"}
   /\ call.pc = "done"
   /\ call.quality \notin {"Low", "Medium", "Best"}
   /\ call.resolution.ok) =>
     /\ ~call.raised
     /\ call.op = "_quality_flags" => call.out = MediumFlags(call.codec)
     /\ call.op = "build_burn_command" =>
          \E i \in 1..Len(call.out) :
            /\ call.out[i] = "aac"
            /\ SubSeq(call.out, i + 1, i + Len(MediumFlags(call.codec)))
                 = MediumFlags(call.codec)

\* C19: a create_safe_copy call with None, "" or a path that does not exist
\* raises and leaves the tracked list and the files on disk as they were; a
\* call with an existing file does not raise, writes exactly one file that
\* did not exist, appends its path to the tracked list and returns it.
C19_SafeCopy ==
  [][(call'.last = "create" /\ << call, subVars >>' # << call, subVars >>) =>
       IF call'.path \in {"none", "empty", "missing"}
         THEN /\ call'.raised
              /\ temp_files' = temp_files /\ fs' = fs
         ELSE /\ ~call'.raised
              /\ call'.ret \notin fs /\ call'.ret \notin Range(temp_files)
              /\ temp_files' = Append(temp_files, call'.ret)
              /\ fs' = fs \cup {call'.ret}]_vars

\* C19 witness: after two successful copies a call with a path that does
\* not exist has raised and both copies are still tracked.
C19_Witness ==
  /\ call.op = "subtitle_manager"
  /\ call.last = "create" /\ call.raised /\ call.path = "missing"
  /\ Len(temp_files) = 2

IsDigits(txt) == \A i \in 1..Len(txt) : txt[i] \in Digits

\* C21: for hours 0..99, minutes and seconds 0..59 and a 3-digit fraction
\* 0..999, _tc_to_ms gives ((h*3600)+(m*60)+s)*1000 + frac; the fields
\* _ms_to_srt_tc writes are digits zero-padded to 2, 2, 2 and 3 places; and
\* _tc_to_ms of the written fields gives the milliseconds back.
C21_TimecodeRoundTrip ==
  call.op = "timecode" =>
    /\ (call.pc # "matched" /\ Len(call.f.text) = 3) =>
         call.ms = ((call.h.v * 3600) + (call.m.v * 60) + call.s.v) * 1000
                     + call.f.v
    /\ call.pc \in {"written", "reparsed"} =>
         /\ Len(call.out.h) = 2 /\ Len(call.out.m) = 2
         /\ Len(call.out.s) = 2 /\ Len(call.out.f) = 3
         /\ IsDigits(call.out.h) /\ IsDigits(call.out.m)
         /\ IsDigits(call.out.s) /\ IsDigits(call.out.f)
    /\ call.pc = "reparsed" => call.back = call.ms

\* C21 witness: 99:59:59,999 was converted, written and converted back.
C21_Witness ==
  /\ call.op = "timecode" /\ call.pc = "reparsed"
  /\ call.h.v = 99 /\ call.m.v = 59 /\ call.s.v = 59 /\ call.f.v = 999
  /\ call.back = 359999999

\* C22: a fraction field of k = 1, 2 or 3 digits with value v contributes
\* v * 10^(3-k) milliseconds (",07" is 70 ms and ",5" is 500 ms), and the
\* fraction is written back with exactly 3 digits.
C22_FractionPadding ==
  (call.op = "timecode" /\ call.pc # "matched") =>
    LET k == Len(call.f.text)
        frac == call.ms - ((call.h.v * 3600) + (call.m.v * 60) + call.s.v) * 1000
    IN /\ frac = call.f.v * (CASE k = 1 -> 100 [] k = 2 -> 10 [] k = 3 -> 1)
       /\ call.f.text = << "0", "7" >> => frac = 70
       /\ call.f.text = << "5" >> => frac = 500
       /\ call.pc \in {"written", "reparsed"} =>
            /\ Len(call.out.f) = 3
            /\ DigitsValue(call.out.f) = frac

\* C22 witness: the fraction ",07" was converted to 70 ms and written "070".
C22_Witness ==
  /\ call.op = "timecode" /\ call.pc = "written"
  /\ call.f.text = << "0", "7" >>
  /\ call.out.f = << "0", "7", "0" >>

\* C23: the output cues are numbered 1, 2, ..., n whatever numbers the
\* input has; each comes from one timecode line of the input, in input
\* order, and its written start and end times denote the milliseconds of
\* that line (hour field included); every timecode line of the input made
\* exactly one cue or is a text line of the cue before it; other lines are
\* skipped; and the scan ends within as many iterations as there are lines.
C23_Renumbering ==
  call.op = "_normalise_srt" =>
    LET out == call.blocks
        ls == call.lines
        Ms(t) == ((DigitsValue(t.h) * 3600) + (DigitsValue(t.m) * 60)
                   + DigitsValue(t.s)) * 1000 + DigitsValue(t.f)
    IN /\ call.cue_index = Len(out)
       /\ \A k \in 1..Len(out) :
            /\ out[k].index = k
            /\ out[k].src \in 1..Len(ls) /\ IsTc(ls[out[k].src])
            /\ Len(out[k].start.f) = 3 /\ Len(out[k].end.f) = 3
            /\ Ms(out[k].start) = Timecodes[ls[out[k].src].v].startMs
            /\ Ms(out[k].end) = Timecodes[ls[out[k].src].v].endMs
            /\ k > 1 => out[k - 1].src < out[k].src
       /\ call.steps <= Len(ls) /\ call.steps < call.i
       /\ call.i <= Len(ls) + 1
       /\ call.pc = "done" =>
            \A p \in 1..Len(ls) : IsTc(ls[p]) =>
              \/ Cardinality({ k \in 1..Len(out) : out[k].src = p }) = 1
              \/ \E k \in 1..Len(out) :
                   out[k].src < p /\ p <= out[k].src + Len(out[k].text)

\* C23 witness: a file whose cues are numbered 7 and 2, the second with a
\* non-zero hour, was normalised into cues 1 and 2.
C23_Witness ==
  /\ call.op = "_normalise_srt" /\ call.pc = "done"
  /\ call.raw = << NumLine(7), TcLine(1), NumLine(2), TcLine(2) >>
  /\ Len(call.blocks) = 2
  /\ call.blocks[2].index = 2
  /\ call.blocks[2].start.h = << "0", "1" >>

BuiltCommand ==
  /\ call.op \in {"build_burn_command", "build_preview_command"}
  /\ call.pc \in {"done", "ran"}
  /\ ~call.raised

\* C24: for a requested size w x h with w, h >= 1 the background source of
\* the burn and of the preview command has width w + (w mod 2) and height
\* h + (h mod 2): both even, not smaller than requested and larger by at
\* most 1; 1921x1079 becomes 1922x1080 and even sizes are unchanged.
C24_EvenSize ==
  BuiltCommand =>
    LET w == call.resolution.w
        h == call.resolution.h
    IN /\ call.size[1] % 2 = 0 /\ call.size[2] % 2 = 0
       /\ w <= call.size[1] /\ call.size[1] <= w + 1
       /\ h <= call.size[2] /\ call.size[2] <= h + 1
       /\ (w = 1921 /\ h = 1079) => call.size = << 1922, 1080 >>
       /\ (w % 2 = 0 /\ h % 2 = 0) => call.size = << w, h >>

\* C24 witness: a preview command was built for 1921x1079.
C24_Witness ==
  /\ BuiltCommand /\ call.op = "build_preview_command"
  /\ call.resolution.w = 1921 /\ call.resolution.h = 1079
  /\ call.size = << 1922, 1080 >>

Has(cmd, arg) == \E i \in 1..Len(cmd) : cmd[i] = arg

\* C29: a burn command starts with "ffmpeg", contains "-progress" followed
\* by "pipe:1", contains "-t" followed by the duration exactly when the
\* duration is positive, contains "-filter_complex" exactly when a subtitle
\* path is given, and ends with the output path, which is what run_command
\* reports as the output path of a successful result.
C29_BurnCommandShape ==
  (BuiltCommand /\ call.op = "build_burn_command") =>
    LET cmd == call.out
    IN /\ cmd[1] = "ffmpeg"
       /\ \E i \in 1..(Len(cmd) - 1) : cmd[i] = "-progress" /\ cmd[i + 1] = "pipe:1"
       /\ Has(cmd, "-t") <=> call.durPos
       /\ call.durPos =>
            \E i \in 1..(Len(cmd) - 1) : cmd[i] = "-t" /\ cmd[i + 1] = "duration_sec"
       /\ Has(cmd, "-filter_complex") <=> call.hasSub
       /\ cmd[Len(cmd)] = "output_path"
       /\ call.pc = "ran" => call.reported = "output_path"

\* C29 witness: a command with subtitle and positive duration was built
\* and run_command reported its output path.
C29_Witness ==
  /\ BuiltCommand /\ call.op = "build_burn_command" /\ call.pc = "ran"
  /\ call.hasSub /\ call.durPos
  /\ call.reported = "output_path"

\* the pieces of a style list whose key is exactly key
PairsFor(pairs, key) == { i \in 1..Len(pairs) : pairs[i].key = key }

\* the pieces of force_style whose key is key
TokensFor(force_style, key) ==
  { i \in 1..Len(force_style) : force_style[i].key = key }

\* C25: for a colour of 6 hex digits RRGGBB, with or without leading "#",
\* and an alpha byte a, _hex_to_ass_color gives "&H", a as two hex digits,
\* then BB, GG, RR; a colour whose length without "#" is not 6 is converted
\* as FFFFFF; in build_subtitle_filter the primary colour has alpha 00 and
\* the outline colour has the supplied OutlineAlpha limited to 0..255.
C25_AssColour ==
  call.pc = "done" =>
    /\ (call.op = "_hex_to_ass_color" /\ call.alpha.v \in 0..255) =>
         call.token =
           << "&", "H" >> \o call.alpha.hex
             \o (IF call.colour.six
                   THEN call.colour.bb \o call.colour.gg \o call.colour.rr
                   ELSE << "F", "F", "F", "F", "F", "F" >>)
    /\ (call.op = "build_subtitle_filter" /\ ~call.raised) =>
         LET given == PairsFor(call.pairs, "OutlineAlpha")
             first == CHOOSE i \in given : \A j \in given : i <= j
             alpha == IF given = {} THEN << "0", "0" >> ELSE call.pairs[first].hex
         IN /\ \A i \in TokensFor(call.force_style, "PrimaryColour") :
                 SubSeq(call.force_style[i].val, 1, 4) = << "&", "H", "0", "0" >>
            /\ \A i \in TokensFor(call.force_style, "OutlineColour") :
                 SubSeq(call.force_style[i].val, 1, 4) = << "&", "H" >> \o alpha
            /\ TokensFor(call.force_style, "PrimaryColour") # {}
            /\ TokensFor(call.force_style, "OutlineColour") # {}

\* C25 witness: "#FF0000" with alpha 85 was converted to "&H550000FF".
C25_Witness ==
  /\ call.op = "_hex_to_ass_color" /\ call.pc = "done"
  /\ call.colour.text = << "#", "F", "F", "0", "0", "0", "0" >>
  /\ call.alpha.v = 85
  /\ call.token = << "&", "H", "5", "5", "0", "0", "0", "0", "F", "F" >>

\* the outline width a style list asks for is 0: no piece names Outline, or
\* every piece that does gives 0
ZeroOutline(pairs) ==
  \A i \in PairsFor(pairs, "Outline") : pairs[i].isInt /\ pairs[i].n = 0

\* C26: when the outline width of the style is 0, explicitly or because no
\* Outline key is given, force_style contains BorderStyle=1 and exactly one
\* outline-width piece, Outline=0.
C26_NoOutlineByDefault ==
  (call.op = "build_subtitle_filter" /\ call.pc = "done"
     /\ ZeroOutline(call.pairs)) =>
    /\ ~call.raised
    /\ \E i \in TokensFor(call.force_style, "BorderStyle") :
         call.force_style[i].val = << "1" >>
    /\ Cardinality(TokensFor(call.force_style, "Outline")) = 1
    /\ \A i \in TokensFor(call.force_style, "Outline") :
         call.force_style[i].val = << "0" >>

\* C27: _parse_styles returns the default of every recognised key that no
\* piece of the input names, and the pieces whose key is not recognised
\* change nothing: the result is that of the input without them.
C27_UnrecognisedIgnored ==
  (call.op = "_parse_styles" /\ call.pc = "done" /\ ~call.raised) =>
    LET keys == { StyleKeys[i] : i \in 1..Len(StyleKeys) }
        recognised == SelectSeq(call.pairs, LAMBDA pr : pr.key \in keys)
    IN /\ \A key \in keys :
            PairsFor(call.pairs, key) = {} => call.d[key] = Defaults[key]
       /\ call.d = ParseStyles(Join(recognised)).d

\* one level of escaping removed from e; ok is FALSE when e holds a colon
\* or quote that no backslash precedes, or ends in the middle of a pair
RECURSIVE Unescape(_)
Unescape(e) ==
  IF e = << >> THEN [ok |-> TRUE, text |-> << >>]
  ELSE IF Head(e) = "\\"
    THEN IF Len(e) = 1 THEN [ok |-> FALSE, text |-> << >>]
         ELSE LET r == Unescape(SubSeq(e, 3, Len(e)))
              IN [ok |-> r.ok, text |-> << e[2] >> \o r.text]
  ELSE LET r == Unescape(Tail(e))
       IN [ok |-> r.ok /\ Head(e) \notin {":", "'"},
           text |-> << Head(e) >> \o r.text]

\* C28: in the text that build_subtitle_filter embeds between the quotes of
\* subtitles='...' every backslash, colon and quote of the path is preceded
\* by a backslash: removing one level of escaping gives the path back, and
\* a path without these characters is embedded as it is.
C28_PathEscaping ==
  (call.op = "build_subtitle_filter" /\ call.pc = "done" /\ ~call.raised) =>
    /\ Unescape(call.embedded) = [ok |-> TRUE, text |-> call.path]
    /\ (\A i \in 1..Len(call.path) : call.path[i] \notin {"\\", ":", "'"}) =>
         call.embedded = call.path

\* C28 witness: the path \:' was embedded as \\\:\'.
C28_Witness ==
  /\ call.op = "build_subtitle_filter" /\ call.pc = "done"
  /\ call.path = << "\\", ":", "'" >>
  /\ call.embedded = << "\\", "\\", "\\", ":", "\\", "'" >>

\* C30: a step of add_job, cancel_current_job or clear_queue never changes
\* the state of an existing job; the only state it writes is "pending" for
\* the new job that add_job appends at the tail of the queue; every change
\* of an existing job's state is a step of the worker thread that holds the
\* job.
C30_OnlyWorkerWritesState ==
  [][/\ client' # client =>
          /\ \A j \in Submitted : jobState'[j] = jobState[j]
          /\ jobState' # jobState =>
               /\ jobState' = [jobState EXCEPT ![NextJobId] = "pending"]
               /\ queue' = Append(queue, NextJobId)
     /\ \A j \in Submitted :
          jobState'[j] # jobState[j] =>
            /\ client' = client
            /\ \E t \in ThreadIds : thr[t].job = j /\ thr'[t].pc # thr[t].pc]_vars

\* C30 witness: clear_queue dropped a pending job and its cancel of the
\* running job is under way; the dropped job is still "pending".
C30_Witness ==
  /\ client = "cn_set"
  /\ \E j \in clearedPending : jobState[j] = "pending"
  /\ \E k \in JobIds : jobState[k] = "running"

\* C31: a cancellation request made for a job that is marked running and
\* whose process has not been spawned yet (the test of cancel_current_job
\* found it running and the runner's cancel flag was set before Popen) is
\* not lost: run_command does not return success for that job and the job
\* does not end "completed".
C31_EarlyCancelNotLost ==
  \A t \in ThreadIds :
    (thr[t].job # None /\ cancelAim[thr[t].job] = "early") =>
      /\ thr[t].res # ResOk
      /\ jobState[thr[t].job] # "completed"

\* C32: a timecode line that begins the next cue is never among the text
\* lines of the cue before it, with or without a sequence number before it.
C32_TimecodeNeverAbsorbed ==
  call.op = "_normalise_srt" =>
    \A k \in 1..Len(call.blocks) :
      \A q \in 1..Len(call.blocks[k].text) : ~IsTc(call.blocks[k].text[q])

\* C37: the cues parse_srt_cues returns are the cues the normalisation
\* wrote, one for one and in order, numbered 1..n, with the same start and
\* end milliseconds, the cues without text included.
C37_ParsedCuesMatchWritten ==
  (call.op = "_normalise_srt" /\ call.pc = "parsed") =>
    /\ Len(call.cues) = Len(call.blocks)
    /\ \A k \in 1..Len(call.cues) :
         /\ call.cues[k].index = k
         /\ call.cues[k].start_ms = Timecodes[call.lines[call.blocks[k].src].v].startMs
         /\ call.cues[k].end_ms = Timecodes[call.lines[call.blocks[k].src].v].endMs

\* C38: normalising the text that a normalisation returned gives that text
\* again, line for line.
C38_Idempotent ==
  (call.op = "_normalise_srt" /\ call.pc = "done" /\ call.pass = 2) =>
    Written(call.blocks) = call.raw
\* C34: once run_command has returned, the process it spawned has exited
\* (no process outlives the call that started it), and so at most one
\* render process is alive at any time.
C34_ProcessExitedOnReturn ==
  /\ \A j \in JobIds : proc[j].st # "orphan"
  /\ Cardinality({ j \in JobIds : proc[j].st \in {"run", "term", "orphan"} }) <= 1

\* C35: cancel_current_job and clear_queue return without raising, at
\* whatever moment of the worker's progress they are called.
C35_CancelNeverRaises == client # "raised"
\* C33: a job is marked "cancelled" only if a cancel request was made for
\* it, that is, the test of cancel_current_job saw this very job running:
\* a request made for another job and a failure of the process on its own
\* never give "cancelled".
C33_CancelledOnlyIfRequested ==
  \A t \in ThreadIds :
    (thr[t].job # None /\ jobState[thr[t].job] = "cancelled") =>
      cancelAim[thr[t].job] # "none"

\* C33, for the request that reaches another job: run_command returns the
\* cancellation result only for a job a request was made for.
C33_CancelHitsItsJob ==
  \A t \in ThreadIds :
    (thr[t].job # None /\ thr[t].res = ResCancelled) =>
      cancelAim[thr[t].job] # "none"
\* C36: every signal of a job submitted through render_green_sub with a
\* callback reaches that callback and no other, whatever is submitted
\* while the job is queued or running.
C36_SignalsReachOwnCallback ==
  call.op = "render_green_sub" =>
    \A j \in 1..MaxRenders :
      call.given[j] # 0 => call.got[j] \subseteq {call.given[j]}
====
